---- MODULE Spec2Model ----
(***************************************************************************)
(* Socks: JSON IPC over pluggable transports.                              *)
(* Part 1: Socks::ThreadPool (threadpool.hpp / threadpool.cpp).            *)
(* Part 2: Socks::Server, Socks::Client and the transports' round trip.    *)
(***************************************************************************)
EXTENDS Integers, Sequences, FiniteSets, TLC

\* ------------------------------------------------------------------ bounds
MaxWorkers == 2
MaxTasks == 2
MaxCallers == 2
MaxRcvErrors == 2

Workers == 1..MaxWorkers
TaskIds == 1..MaxTasks
Callers == 1..MaxCallers
NoTask == 0

VARIABLES
    \* ---- ThreadPool members
    nworkers,        \* thread_count given to the constructor
    tasks_,          \* std::queue of wrapped tasks (task ids, FIFO)
    stop_,           \* graceful stop requested
    terminate_now_,  \* immediate termination requested
    wpc,             \* position of each worker thread in worker()
    wtask,           \* the task a worker holds in its local `task`
    joinable,        \* std::thread::joinable() of workers_[i]
    \* ---- tasks handed to the pool
    tinfo,           \* per task: how it was submitted and how its body ends
    fut,             \* per task: state of the std::future of submit_async
    started,         \* per task: number of times its body was entered
    finished,        \* per task: number of times its body ended
    skipped,         \* tasks whose wrapper returned without running the body
    accepted,        \* tasks enqueue() put into the queue
    rejected,        \* tasks for which enqueue() threw
    nextTask,        \* next unused task id
    \* ---- the thread that submits tasks
    ppc,             \* "idle" or "notify" (between unlock and notify_one)
    \* ---- the thread that owns the pool (wait / terminate / destructor)
    cpc,             \* "idle", "notify", "join", "destroyed"
    cop,             \* operation in progress: "none","wait","terminate","dtor"
    jidx,            \* index of the join loop over workers_
    returnedOps,     \* operations that have returned at least once
    beforeWait,      \* tasks accepted before the first wait()/destructor call
    beforeTerm,      \* tasks still queued when terminate() set its flag
    crashed,         \* an exception escaped a thread: std::terminate
    \* ---- Server members and the serving thread
    usePool,         \* thread_pool_ != nullptr
    handlers_,       \* command name -> handler
    running_,        \* run state flag
    spc,             \* position of the thread inside start() / serve()
    sid,             \* the message the serving thread holds (data, client_id)
    srvDown,         \* an exception left serve() and start()
    \* ---- the wire and the peers
    netq,            \* messages sent to the server and not yet received
    msg,             \* per message: request, handling and reply
    nextConn,        \* next unused message / connection number
    \* ---- Client
    clpc,            \* "idle", or "wait" inside the transport's round trip
    clconn,          \* the connection of the round trip in progress
    \* ---- the server's transport and the thread that calls stop()
    tropen,          \* the listening descriptor is open (server_fd_ != -1)
    rcvErrors,       \* number of "Receive error" lines serve() has logged
    stpc,            \* position inside stop(): "idle", "flag", "done"
    \* ---- a Client instance used by several threads
    mutex_,          \* the thread that holds Client::mutex_, or 0
    cth,             \* per calling thread: its call and how far it has got
    terminated,      \* a failure left a detached thread: std::terminate
    \* ---- one Transport object, the descriptors of its process, its peers
    backend,         \* "unix", "udp" or "tcp"
    server_fd_,      \* server_fd_ / sock_: -1 or the transport's descriptor
    fdt,             \* descriptors: "free", "sock", "own", "conn", "gone"
    path_,           \* the file at socket_path_: "absent" or "bound"
    peers,           \* UDP peers whose address still exists
    handed,          \* identities receive() has returned
    lastop,          \* the last call on the transport and how it ended
    killed,          \* the process was ended by SIGPIPE
    \* ---- a request validated against a schema
    vtext,           \* the request as it came from the wire
    vschema,         \* the schema the handler passes
    vdoc,            \* the json value assert_parameters is called with
    vout,            \* what assert_parameters did
    \* ---- one datagram through UdpTransport
    client_addr,     \* sockaddr_in recvfrom filled in: sin_addr, sin_port
    client_id,       \* the identity receive() wrote
    dest_addr,       \* sockaddr_in handed to sendto
    \* ---- one message through the receive step of a transport
    role,            \* "server": receive(client_id); "client": send(data)
    wire,            \* the bytes the peer wrote
    got,             \* what the receive step did with them
    \* ---- the lifetime of the Client instance
    client_alive,    \* ~Client() has not run
    \* ---- connections behind the descriptors of a server with a pool
    conn_at,         \* per descriptor: the connection it refers to, or 0
    held,            \* per task: the client_id it captured, and whose it was
    wrote,           \* per task: the connection its write went to, or 0
    \* ---- two unix transports constructed with one socket path
    inst_fd,         \* per instance: its server_fd_ (a socket), or NoFd
    path_sock,       \* the socket the path refers to, or 0 when it is absent
    listening,       \* the sockets that are open and listening
    next_sock,       \* the next socket bind() will create
    reached          \* per peer: the outcome of its last connect()

poolVars == <<nworkers, tasks_, stop_, terminate_now_, wpc, wtask, joinable,
              tinfo, fut, started, finished, skipped, accepted, rejected,
              nextTask, ppc, cpc, cop, jidx, returnedOps, beforeWait,
              beforeTerm, crashed>>

srvVars == <<usePool, handlers_, running_, spc, sid, srvDown, netq, msg,
             nextConn, clpc, clconn, tropen, rcvErrors, stpc>>

cliVars == <<mutex_, cth, terminated>>

trVars == <<backend, server_fd_, fdt, path_, peers, handed, lastop, killed>>

valVars == <<vtext, vschema, vdoc, vout>>

udpVars == <<client_addr, client_id, dest_addr>>

\* one message through a transport's receive step
rcvVars == <<role, wire, got>>

tdVars == <<client_alive>>

reuseVars == <<conn_at, held, wrote>>

pathVars == <<inst_fd, path_sock, listening, next_sock, reached>>

moreVars == <<rcvVars, tdVars, reuseVars, pathVars>>

otherVars == <<cliVars, trVars, valVars, udpVars, moreVars>>

vars == <<poolVars, srvVars, otherVars>>

NoInfo == [kind |-> "none", fails |-> FALSE]

\* ThreadPool::ThreadPool(thread_count): both flags false, n workers started
PoolMembers ==
    /\ tasks_ = <<>>
    /\ stop_ = FALSE
    /\ terminate_now_ = FALSE
    /\ wpc = [w \in Workers |-> IF w <= nworkers THEN "lock" ELSE "absent"]
    /\ wtask = [w \in Workers |-> NoTask]
    /\ joinable = [w \in Workers |-> w <= nworkers]
    /\ tinfo = [t \in TaskIds |-> NoInfo]
    /\ fut = [t \in TaskIds |-> "none"]
    /\ started = [t \in TaskIds |-> 0]
    /\ finished = [t \in TaskIds |-> 0]
    /\ skipped = {}
    /\ accepted = {}
    /\ rejected = {}
    /\ nextTask = 1
    /\ ppc = "idle"
    /\ cpc = "idle"
    /\ cop = "none"
    /\ jidx = 0
    /\ returnedOps = {}
    /\ beforeWait = {}
    /\ beforeTerm = {}
    /\ crashed = FALSE

PoolInit == nworkers \in 1..MaxWorkers /\ PoolMembers

Live == ~crashed /\ cpc # "destroyed"

WaitPredicate_ignores_terminate == tasks_ # <<>> /\ ~stop_

\* the predicate of condition_.wait in worker()
WaitPredicate == terminate_now_ \/ (tasks_ # <<>> /\ ~stop_)

should_terminate_never == FALSE

\* should_terminate()
should_terminate == terminate_now_

\* how the body of a queued unit ends, seen from the wrapper around it:
\* a submit_async unit invokes a std::packaged_task, which stores a failure
\* of the function in the shared state instead of letting it out
BodyOutcome(t) ==
    IF tinfo[t].kind = "async" THEN "returns"
    ELSE IF tinfo[t].fails THEN "throws" ELSE "returns"

wrap_task_nocatch(outcome) == IF outcome = "throws" THEN "escaped" ELSE "returned"

\* wrap_task: try { func(); } catch (...) {}
wrap_task(outcome) == "returned"

\* releasing the last owner of a packaged_task that was never invoked makes
\* the shared state ready with broken_promise
Abandon(f) == IF f = "pending" THEN "broken" ELSE f

\* worker(): the critical section of one loop iteration
WorkerLock(w) ==
    /\ Live
    /\ UNCHANGED <<srvVars, otherVars>>
    /\ wpc[w] = "lock"
    /\ IF ~WaitPredicate
         THEN /\ wpc' = [wpc EXCEPT ![w] = "suspended"]
              /\ UNCHANGED <<tasks_, wtask>>
       ELSE IF terminate_now_
         THEN /\ wpc' = [wpc EXCEPT ![w] = "exited"]
              /\ UNCHANGED <<tasks_, wtask>>
       ELSE IF stop_ /\ tasks_ = <<>>
         THEN /\ wpc' = [wpc EXCEPT ![w] = "exited"]
              /\ UNCHANGED <<tasks_, wtask>>
       ELSE IF tasks_ # <<>>
         THEN /\ wtask' = [wtask EXCEPT ![w] = Head(tasks_)]
              /\ tasks_' = Tail(tasks_)
              /\ wpc' = [wpc EXCEPT ![w] = "wrapper"]
       ELSE /\ wpc' = wpc
            /\ UNCHANGED <<tasks_, wtask>>
    /\ UNCHANGED <<nworkers, stop_, terminate_now_, joinable, tinfo, fut,
                   started, finished, skipped, accepted, rejected, nextTask,
                   ppc, cpc, cop, jidx, returnedOps, beforeWait, beforeTerm,
                   crashed>>

\* a suspended worker may wake without a notification
SpuriousWake(w) ==
    /\ Live
    /\ UNCHANGED <<srvVars, otherVars>>
    /\ wpc[w] = "suspended"
    /\ wpc' = [wpc EXCEPT ![w] = "lock"]
    /\ UNCHANGED <<nworkers, tasks_, stop_, terminate_now_, wtask, joinable,
                   tinfo, fut, started, finished, skipped, accepted, rejected,
                   nextTask, ppc, cpc, cop, jidx, returnedOps, beforeWait,
                   beforeTerm, crashed>>

\* task(): the wrapper's check of should_terminate(); enqueue() wraps every
\* unit once, submit_async wraps it a second time before handing it over
WorkerWrapper(w) ==
    /\ Live
    /\ UNCHANGED <<srvVars, otherVars>>
    /\ wpc[w] \in {"wrapper", "wrapper2"}
    /\ LET t == wtask[w] IN
       IF should_terminate
         THEN /\ skipped' = skipped \cup {t}
              /\ fut' = [fut EXCEPT ![t] = Abandon(@)]
              /\ wtask' = [wtask EXCEPT ![w] = NoTask]
              /\ wpc' = [wpc EXCEPT ![w] = "lock"]
              /\ UNCHANGED started
       ELSE IF wpc[w] = "wrapper" /\ tinfo[t].kind = "async"
         THEN /\ wpc' = [wpc EXCEPT ![w] = "wrapper2"]
              /\ UNCHANGED <<skipped, fut, wtask, started>>
       ELSE /\ wpc' = [wpc EXCEPT ![w] = "body"]
            /\ started' = [started EXCEPT ![t] = @ + 1]
            /\ UNCHANGED <<skipped, fut, wtask>>
    /\ UNCHANGED <<nworkers, tasks_, stop_, terminate_now_, joinable, tinfo,
                   finished, accepted, rejected, nextTask, ppc, cpc, cop,
                   jidx, returnedOps, beforeWait, beforeTerm, crashed>>

\* the body ends; the wrapper swallows a failure and the worker loops
WorkerBodyEnd(w) ==
    /\ Live
    /\ UNCHANGED <<srvVars, otherVars>>
    /\ wpc[w] = "body"
    /\ tinfo[wtask[w]].kind # "serve"
    /\ LET t == wtask[w] IN
       /\ finished' = [finished EXCEPT ![t] = @ + 1]
       /\ fut' = [fut EXCEPT ![t] = IF @ = "pending" THEN "ready" ELSE @]
       /\ IF wrap_task(BodyOutcome(t)) = "escaped"
            THEN /\ crashed' = TRUE
                 /\ wpc' = [wpc EXCEPT ![w] = "dead"]
            ELSE /\ crashed' = crashed
                 /\ wpc' = [wpc EXCEPT ![w] = "lock"]
       /\ wtask' = [wtask EXCEPT ![w] = NoTask]
    /\ UNCHANGED <<nworkers, tasks_, stop_, terminate_now_, joinable, tinfo,
                   started, skipped, accepted, rejected, nextTask, ppc, cpc,
                   cop, jidx, returnedOps, beforeWait, beforeTerm>>

\* enqueue(task) / submit_async(f): the flag check and the push are one
\* critical section; a closed pool throws and the queue is left as it was
enqueue_checks_stop_only == stop_

\* enqueue(): if (stop_ || terminate_now_) throw
PoolClosed == stop_ \/ terminate_now_

Enqueue(kind, fails) ==
    /\ Live
    /\ UNCHANGED <<srvVars, otherVars>>
    /\ ppc = "idle"
    /\ nextTask <= MaxTasks
    /\ LET t == nextTask IN
       /\ nextTask' = t + 1
       /\ tinfo' = [tinfo EXCEPT ![t] = [kind |-> kind, fails |-> fails]]
       /\ IF PoolClosed
            THEN /\ rejected' = rejected \cup {t}
                 /\ UNCHANGED <<tasks_, accepted, fut, ppc>>
            ELSE /\ tasks_' = Append(tasks_, t)
                 /\ accepted' = accepted \cup {t}
                 /\ fut' = [fut EXCEPT ![t] =
                               IF kind = "async" THEN "pending" ELSE @]
                 /\ ppc' = "notify"
                 /\ UNCHANGED rejected
    /\ UNCHANGED <<nworkers, stop_, terminate_now_, wpc, wtask, joinable,
                   started, finished, skipped, cpc, cop, jidx, returnedOps,
                   beforeWait, beforeTerm, crashed>>

NotifyOne_wakes_nobody ==
    /\ Live
    /\ ppc = "notify"
    /\ ppc' = "idle"
    /\ UNCHANGED <<srvVars, otherVars>>
    /\ UNCHANGED <<nworkers, tasks_, stop_, terminate_now_, wpc, wtask,
                   joinable, tinfo, fut, started, finished, skipped, accepted,
                   rejected, nextTask, cpc, cop, jidx, returnedOps,
                   beforeWait, beforeTerm, crashed>>

\* condition_.notify_one() after the lock is released: wakes one suspended
\* worker, or nobody when none is suspended
NotifyOne ==
    /\ Live
    /\ UNCHANGED <<srvVars, otherVars>>
    /\ ppc = "notify"
    /\ ppc' = "idle"
    /\ \/ \E w \in Workers :
             /\ wpc[w] = "suspended"
             /\ wpc' = [wpc EXCEPT ![w] = "lock"]
       \/ /\ \A w \in Workers : wpc[w] # "suspended"
          /\ wpc' = wpc
    /\ UNCHANGED <<nworkers, tasks_, stop_, terminate_now_, wtask, joinable,
                   tinfo, fut, started, finished, skipped, accepted, rejected,
                   nextTask, cpc, cop, jidx, returnedOps, beforeWait,
                   beforeTerm, crashed>>

\* wait(), also reached from ~ThreadPool(): stop_ = true under the lock
CallWait(op) ==
    /\ Live
    /\ UNCHANGED <<srvVars, otherVars>>
    /\ cpc = "idle"
    /\ op \in {"wait", "dtor"}
    /\ stop_' = TRUE
    /\ beforeWait' = IF stop_ THEN beforeWait ELSE accepted
    /\ cop' = op
    /\ cpc' = "notify"
    /\ UNCHANGED <<nworkers, tasks_, terminate_now_, wpc, wtask, joinable,
                   tinfo, fut, started, finished, skipped, accepted, rejected,
                   nextTask, ppc, jidx, returnedOps, beforeTerm, crashed>>

\* terminate(): terminate_now_ = true under the lock
CallTerminate ==
    /\ Live
    /\ UNCHANGED <<srvVars, otherVars>>
    /\ cpc = "idle"
    /\ terminate_now_' = TRUE
    /\ beforeTerm' = IF terminate_now_ THEN beforeTerm
                     ELSE {tasks_[i] : i \in 1..Len(tasks_)}
    /\ cop' = "terminate"
    /\ cpc' = "notify"
    /\ UNCHANGED <<nworkers, tasks_, stop_, wpc, wtask, joinable, tinfo, fut,
                   started, finished, skipped, accepted, rejected, nextTask,
                   ppc, jidx, returnedOps, beforeWait, crashed>>

\* condition_.notify_all() of wait() and terminate()
NotifyAll ==
    /\ Live
    /\ UNCHANGED <<srvVars, otherVars>>
    /\ cpc = "notify"
    /\ wpc' = [w \in Workers |-> IF wpc[w] = "suspended" THEN "lock"
                                 ELSE wpc[w]]
    /\ cpc' = "join"
    /\ jidx' = 1
    /\ UNCHANGED <<nworkers, tasks_, stop_, terminate_now_, wtask, joinable,
                   tinfo, fut, started, finished, skipped, accepted, rejected,
                   nextTask, ppc, cop, returnedOps, beforeWait, beforeTerm,
                   crashed>>

\* one iteration of `for (worker : workers_) if (joinable) join()`
JoinWorker ==
    /\ Live
    /\ UNCHANGED <<srvVars, otherVars>>
    /\ cpc = "join"
    /\ jidx <= nworkers
    /\ joinable[jidx] => wpc[jidx] = "exited"
    /\ joinable' = [joinable EXCEPT ![jidx] = FALSE]
    /\ jidx' = jidx + 1
    /\ UNCHANGED <<nworkers, tasks_, stop_, terminate_now_, wpc, wtask, tinfo,
                   fut, started, finished, skipped, accepted, rejected,
                   nextTask, ppc, cpc, cop, returnedOps, beforeWait,
                   beforeTerm, crashed>>

\* the join loop is over: wait() / terminate() returns; the destructor then
\* destroys the members, the queue with the units left in it included
JoinReturn ==
    /\ Live
    /\ UNCHANGED <<srvVars, otherVars>>
    /\ cpc = "join"
    /\ jidx > nworkers
    /\ returnedOps' = returnedOps \cup {cop}
    /\ cop' = "none"
    /\ jidx' = 0
    /\ IF cop = "dtor"
         THEN /\ cpc' = "destroyed"
              /\ fut' = [t \in TaskIds |->
                           IF \E i \in 1..Len(tasks_) : tasks_[i] = t
                             THEN Abandon(fut[t]) ELSE fut[t]]
         ELSE /\ cpc' = "idle"
              /\ fut' = fut
    /\ UNCHANGED <<nworkers, tasks_, stop_, terminate_now_, wpc, wtask,
                   joinable, tinfo, started, finished, skipped, accepted,
                   rejected, nextTask, ppc, beforeWait, beforeTerm, crashed>>

PoolStep ==
    \/ \E w \in Workers : WorkerLock(w)
    \/ \E w \in Workers : SpuriousWake(w)
    \/ \E w \in Workers : WorkerWrapper(w)
    \/ \E w \in Workers : WorkerBodyEnd(w)
    \/ \E kind \in {"plain", "async"}, fails \in BOOLEAN : Enqueue(kind, fails)
    \/ NotifyOne
    \/ \E op \in {"wait", "dtor"} : CallWait(op)
    \/ CallTerminate
    \/ NotifyAll
    \/ JoinWorker
    \/ JoinReturn

TypeOK ==
    /\ nworkers \in 1..MaxWorkers
    /\ stop_ \in BOOLEAN /\ terminate_now_ \in BOOLEAN
    /\ \A w \in Workers : wpc[w] \in {"absent", "lock", "suspended", "wrapper",
                                      "wrapper2", "body", "exited", "dead"}
    /\ \A i \in 1..Len(tasks_) : tasks_[i] \in accepted
    /\ accepted \cap rejected = {}

\* ------------------------------------------------------------ pool claims
Started(w) == w <= nworkers

AllExited == \A w \in Workers : Started(w) => wpc[w] = "exited"

InQueue(t) == \E i \in 1..Len(tasks_) : tasks_[i] = t

\* C1: wait() (and the destructor, which calls it) eventually returns: the
\* workers drain the queue and exit.
C1_WaitReturns == (cop \in {"wait", "dtor"}) ~> (cop = "none" /\ AllExited)

\* C2: every task accepted before wait() is invoked has executed exactly once
\* by the time wait() returns (unless terminate() cut the pool short), and no
\* task body is ever entered twice.
C2_RunOnceByWaitReturn ==
    \A t \in TaskIds :
        (cop \in {"wait", "dtor"} /\ t \in beforeWait /\ ~terminate_now_)
            ~> (terminate_now_
                \/ (cop = "none" /\ started[t] = 1 /\ finished[t] = 1))

\* C3: once a shutdown flag is set, an enqueue or submit_async fails with the
\* pool-closed error and nothing is added to the queue.
C3_ClosedPoolRejects ==
    [][(stop_ \/ terminate_now_) =>
          /\ accepted' = accepted
          /\ Len(tasks_') <= Len(tasks_)
          /\ \A i \in 1..Len(tasks_') :
                 tasks_'[i] = tasks_[i + Len(tasks_) - Len(tasks_')]
          /\ nextTask' # nextTask => nextTask \in rejected']_vars

C3_Witness ==
    /\ \E t \in rejected : stop_ /\ ~terminate_now_
    /\ tasks_ # <<>>

\* C4: terminate() eventually returns, with every worker exited, however
\* many tasks are still queued.
C4_TerminateReturns ==
    (cop = "terminate") ~> (cop = "none" /\ AllExited)

C4_Witness ==
    /\ "terminate" \in returnedOps
    /\ tasks_ # <<>>
    /\ AllExited
    /\ \E t \in TaskIds : finished[t] = 1

\* C5: a failing task body does not take its worker down: the worker returns
\* to the head of its loop and no std::terminate happens.
C5_FailingTaskKeepsWorker ==
    [][\A w \in Workers :
          (wpc[w] = "body" /\ tinfo[wtask[w]].fails)
              => (wpc'[w] \in {"body", "lock"} /\ ~crashed')]_vars

C5_Witness ==
    /\ nworkers = 1
    /\ tinfo[1] = [kind |-> "plain", fails |-> TRUE]
    /\ finished[1] = 1
    /\ finished[2] = 1

\* C6: a submit_async handle is fulfilled only by a worker ending the body of
\* its task, stays fulfilled, and is never fulfilled when termination was
\* requested before the body was entered.
C6_FutureFulfilledByRun ==
    [][\A t \in TaskIds :
          /\ (fut[t] # "ready" /\ fut'[t] = "ready")
                => /\ fut[t] = "pending"
                   /\ \E w \in Workers : wpc[w] = "body" /\ wtask[w] = t
                   /\ finished'[t] = 1
          /\ fut[t] = "ready" => fut'[t] = "ready"
          /\ (terminate_now_ /\ started[t] = 0)
                => (started'[t] = 0 /\ fut'[t] # "ready")]_vars

C6_Witness ==
    /\ \E t \in TaskIds : fut[t] = "ready" /\ finished[t] = 1
    /\ \E t \in TaskIds : /\ terminate_now_ /\ t \in skipped
                          /\ fut[t] = "broken" /\ started[t] = 0

\* ---------------------------------------------------------------- strings
\* a std::string: the text s followed by pad further bytes of filler, so that
\* long strings have a length without being spelled out
S(x) == [s |-> x, pad |-> 0]

Padded(x, n) == [s |-> x, pad |-> n]

StrCat(a, b) == [s |-> a.s \o b.s, pad |-> a.pad + b.pad]

StrLen(a) == Len(a.s) + a.pad

\* ------------------------------------------------------- nlohmann::json
\* numbers carry ten times their value in n, so that 5.2 is 52
NoStr == S("")

NoFields == [k \in {} |-> 0]

JInt(i) == [ty |-> "number_integer", n |-> 10 * i, str |-> NoStr]

JUns(i) == [ty |-> "number_unsigned", n |-> 10 * i, str |-> NoStr]

JFloat(n10) == [ty |-> "number_float", n |-> n10, str |-> NoStr]

JBool(b) == [ty |-> "boolean", n |-> IF b THEN 1 ELSE 0, str |-> NoStr]

JStr(a) == [ty |-> "string", n |-> 0, str |-> a]

JNull == [ty |-> "null", n |-> 0, str |-> NoStr]

\* a json document: an object, whose members are scalars or objects, or a
\* scalar
JObj(f) == [ty |-> "object", n |-> 0, str |-> NoStr, f |-> f]

JDoc(v) == [ty |-> v.ty, n |-> v.n, str |-> v.str, f |-> NoFields]

NullDoc == JDoc(JNull)

NumTypes == {"number_integer", "number_unsigned", "number_float"}

\* operator== of json values: numbers compare by value across number types
ScalarEq(a, b) ==
    IF a.ty \in NumTypes /\ b.ty \in NumTypes THEN a.n = b.n
    ELSE a.ty = b.ty /\ a.n = b.n /\ a.str = b.str

JsonEq(a, b) ==
    IF a.ty = "object" /\ b.ty = "object"
      THEN /\ DOMAIN a.f = DOMAIN b.f
           /\ \A k \in DOMAIN a.f : ScalarEq(a.f[k], b.f[k])
    ELSE a.ty # "object" /\ b.ty # "object" /\ ScalarEq(a, b)

\* res[key] = value on an object or on null (null becomes an object)
SetField(doc, key, v) ==
    LET f == IF doc.ty = "object" THEN doc.f ELSE NoFields IN
    JObj([k \in DOMAIN f \cup {key} |-> IF k = key THEN v ELSE f[k]])

\* json::value(key, default) for a std::string / bool default: type_error 306
\* on a non-object, the default when the key is absent, type_error 302 when
\* the stored value has another type
TypeError306 == S("[json.exception.type_error.306] cannot use value()")

TypeError302 == S("[json.exception.type_error.302] type mismatch")

ValueOr(doc, key, wantTy, default) ==
    IF doc.ty # "object" THEN [ok |-> FALSE, v |-> default, what |-> TypeError306]
    ELSE IF key \notin DOMAIN doc.f THEN [ok |-> TRUE, v |-> default, what |-> NoStr]
    ELSE IF doc.f[key].ty # wantTy
      THEN [ok |-> FALSE, v |-> default, what |-> TypeError302]
    ELSE [ok |-> TRUE, v |-> doc.f[key], what |-> NoStr]

\* ------------------------------------------------------------ wire text
\* a serialized document is a sequence of tokens, each a run of bytes
Tok(tk) == [tk |-> tk, n |-> 0, str |-> NoStr]

RECURSIVE DigitLen(_)
DigitLen(i) ==
    IF i < 0 THEN 1 + DigitLen(-i)
    ELSE IF i < 10 THEN 1 ELSE 1 + DigitLen(i \div 10)

TokBytes(t) ==
    CASE t.tk \in {"{", "}", ","} -> 1
      [] t.tk = "key" -> StrLen(t.str) + 3
      [] t.tk = "str" -> StrLen(t.str) + 2
      [] t.tk = "int" -> DigitLen(t.n \div 10)
      [] t.tk = "float" -> DigitLen(t.n \div 10) + 2
      [] t.tk \in {"true", "null"} -> 4
      [] t.tk = "false" -> 5
      [] OTHER -> StrLen(t.str)

RECURSIVE TextBytes(_)
TextBytes(text) ==
    IF text = <<>> THEN 0 ELSE TokBytes(Head(text)) + TextBytes(Tail(text))

\* dump() of one value: both integer types print the same digits
DumpScalar(v) ==
    CASE v.ty \in {"number_integer", "number_unsigned"} ->
             [tk |-> "int", n |-> v.n, str |-> NoStr]
      [] v.ty = "number_float" -> [tk |-> "float", n |-> v.n, str |-> NoStr]
      [] v.ty = "string" -> [tk |-> "str", n |-> 0, str |-> v.str]
      [] v.ty = "boolean" -> Tok(IF v.n = 1 THEN "true" ELSE "false")
      [] OTHER -> Tok("null")

\* object keys are kept and printed in the order of std::map<std::string>
KeyOrder == <<"_cmd", "_msg", "_success", "meta", "n", "retries", "v">>

RECURSIVE DumpFields(_, _, _)
DumpFields(f, i, first) ==
    IF i > Len(KeyOrder) THEN <<>>
    ELSE IF KeyOrder[i] \notin DOMAIN f THEN DumpFields(f, i + 1, first)
    ELSE (IF first THEN <<>> ELSE <<Tok(",")>>)
         \o <<[tk |-> "key", n |-> 0, str |-> S(KeyOrder[i])]>>
         \o (IF f[KeyOrder[i]].ty = "object"
               THEN <<Tok("{")>> \o DumpFields(f[KeyOrder[i]].f, 1, TRUE)
                    \o <<Tok("}")>>
             ELSE <<DumpScalar(f[KeyOrder[i]])>>)
         \o DumpFields(f, i + 1, FALSE)

Dump(doc) ==
    IF doc.ty = "object"
      THEN <<Tok("{")>> \o DumpFields(doc.f, 1, TRUE) \o <<Tok("}")>>
    ELSE <<DumpScalar(doc)>>

\* json::parse of one value: a non-negative integer becomes number_unsigned,
\* a negative one number_integer
ParseError101 == S("[json.exception.parse_error.101] parse error")

ValueToks == {"int", "float", "str", "true", "false", "null"}

ParseScalar(t) ==
    CASE t.tk = "int" -> IF t.n >= 0 THEN [ty |-> "number_unsigned", n |-> t.n, str |-> NoStr]
                         ELSE [ty |-> "number_integer", n |-> t.n, str |-> NoStr]
      [] t.tk = "float" -> JFloat(t.n)
      [] t.tk = "str" -> JStr(t.str)
      [] t.tk = "true" -> JBool(TRUE)
      [] t.tk = "false" -> JBool(FALSE)
      [] OTHER -> JNull

\* the members of an object from the token at i on, up to its closing
\* brace; next is the token after the brace; a member's value is a scalar
\* or an object
RECURSIVE ParseFields(_, _, _)

\* the value that follows the key at i: a scalar, an empty object, or the
\* members of a nested object
ParseMember(text, i) ==
    IF text[i + 1].tk # "{"
      THEN [ok |-> text[i + 1].tk \in ValueToks, f |-> NoFields, next |-> i + 2]
    ELSE IF text[i + 2].tk = "}"
      THEN [ok |-> TRUE, f |-> NoFields, next |-> i + 3]
    ELSE ParseFields(text, i + 2, NoFields)

MemberValue(text, i, sub) ==
    IF text[i + 1].tk = "{" THEN JObj(sub.f) ELSE ParseScalar(text[i + 1])

WithMember(f, key, v) ==
    [k \in DOMAIN f \cup {key} |-> IF k = key THEN v ELSE f[k]]

\* after a member: the closing brace ends the object, a comma continues it
ParseAfter(text, ok, j, g) ==
    IF ~ok \/ j > Len(text) THEN [ok |-> FALSE, f |-> g, next |-> j]
    ELSE IF text[j].tk = "}" THEN [ok |-> TRUE, f |-> g, next |-> j + 1]
    ELSE IF text[j].tk = "," THEN ParseFields(text, j + 1, g)
    ELSE [ok |-> FALSE, f |-> g, next |-> j]

ParseMemberAt(text, i, f, sub) ==
    ParseAfter(text, sub.ok, sub.next,
               WithMember(f, text[i].str.s, MemberValue(text, i, sub)))

ParseFields(text, i, f) ==
    IF i + 2 > Len(text) \/ text[i].tk # "key"
      THEN [ok |-> FALSE, f |-> f, next |-> i]
    ELSE ParseMemberAt(text, i, f, ParseMember(text, i))

\* the document when the members were read up to the last token
ParseObject(ok, f) ==
    [ok |-> ok, doc |-> IF ok THEN JObj(f) ELSE NullDoc,
     what |-> IF ok THEN NoStr ELSE ParseError101]

ParseMembers(r, len) == ParseObject(r.ok /\ r.next = len + 1, r.f)

Parse(text) ==
    IF Len(text) = 1 /\ text[1].tk \in ValueToks
      THEN [ok |-> TRUE, doc |-> JDoc(ParseScalar(text[1])), what |-> NoStr]
    ELSE IF Len(text) = 2 /\ text[1].tk = "{" /\ text[2].tk = "}"
      THEN [ok |-> TRUE, doc |-> JObj(NoFields), what |-> NoStr]
    ELSE IF Len(text) >= 2 /\ text[1].tk = "{"
      THEN ParseMembers(ParseFields(text, 2, NoFields), Len(text))
    ELSE [ok |-> FALSE, doc |-> NullDoc, what |-> ParseError101]

\* ------------------------------------------------------------ transports
BufferSize == 2048

\* read(fd, buffer, sizeof(buffer) - 1) / recvfrom(..., sizeof(buffer) - 1):
\* one read of at most 2047 bytes; what does not fit is cut off
RECURSIVE FitPrefix(_, _)
FitPrefix(text, room) ==
    IF text = <<>> THEN <<>>
    ELSE IF TokBytes(Head(text)) <= room
      THEN <<Head(text)>> \o FitPrefix(Tail(text), room - TokBytes(Head(text)))
    ELSE IF room > 0 THEN <<[tk |-> "cut", n |-> 0, str |-> Padded("", room)]>>
    ELSE <<>>

ReadBuffer_whole_buffer(text) == FitPrefix(text, BufferSize)

ReadBuffer(text) == FitPrefix(text, BufferSize - 1)

\* ---------------------------------------------------------------- Server
\* okay(result)
okay(result) == SetField(result, "_success", JBool(TRUE))

\* error(result, message)
error(result, message) ==
    SetField(SetField(result, "_success", JBool(FALSE)), "_msg", JStr(message))

\* the handlers an application may register, by what they do with a request
HandlerKinds == {"echo", "echo_req", "bare", "fail", "fail_other", "refuse"}

NoCall == [out |-> "none", doc |-> NullDoc, what |-> NoStr]

\* Handler = std::function<json(const json &)>
\*   echo:       return okay({{"v", req.at("v")}})
\*   fail:       throw std::runtime_error("boom")
\*   fail_other: throw 42  (a failure that is not a std::exception)
\*   refuse:     return error({}, "bad")
\*   echo_req:   return okay(req)  (the request itself, marked successful)
\*   bare:       return {{"v", 1}}  (a result not passed through okay)
HandlerCall(h, req) ==
    CASE h = "echo" ->
           IF "v" \in DOMAIN req.f
             THEN [out |-> "returns",
                   doc |-> okay(JObj([k \in {"v"} |-> req.f["v"]])),
                   what |-> NoStr]
             ELSE [out |-> "throws_std", doc |-> NullDoc,
                   what |-> S("[json.exception.out_of_range.403] key 'v' not found")]
      [] h = "echo_req" ->
           [out |-> "returns", doc |-> okay(req), what |-> NoStr]
      [] h = "bare" ->
           [out |-> "returns", doc |-> JObj([k \in {"v"} |-> JInt(1)]),
            what |-> NoStr]
      [] h = "fail" ->
           [out |-> "throws_std", doc |-> NullDoc, what |-> S("boom")]
      [] h = "fail_other" ->
           [out |-> "throws_other", doc |-> NullDoc, what |-> NoStr]
      [] OTHER ->
           [out |-> "returns", doc |-> error(NullDoc, S("bad")), what |-> NoStr]

NoCmdName == "<no _cmd>"

InternalError(what) ==
    error(NullDoc, StrCat(S("Invalid JSON or internal error: "), what))

\* what leaves the task lambda: its catch takes a const std::exception & only
EscapesTask(call) == call.out = "throws_other"

\* handlers_.find(command) != handlers_.end()
Registered(registry, command) ==
    command.pad = 0 /\ command.s \in DOMAIN registry

unknown_command_unnamed(command) == S("Unknown command")

\* "Unknown command: " + command
UnknownCommand(command) == StrCat(S("Unknown command: "), command)

\* the first try block of the task: parse, route, invoke, inspect
\* the result says which handler ran on what and what it gave, the response
\* built, and whether a failure left the lambda
ServeTask(registry, data) ==
    LET p == Parse(data)
        c == ValueOr(p.doc, "_cmd", "string", JStr(S(NoCmdName)))
        command == c.v.str
        found == p.ok /\ c.ok /\ Registered(registry, command)
        call == IF found THEN HandlerCall(registry[command.s], p.doc)
                ELSE NoCall
        sv == ValueOr(call.doc, "_success", "boolean", JBool(FALSE))
        mv == ValueOr(call.doc, "_msg", "string", JStr(S("No error message")))
        resp ==
            IF ~p.ok THEN InternalError(p.what)
            ELSE IF ~c.ok THEN InternalError(c.what)
            ELSE IF ~found THEN error(NullDoc, UnknownCommand(command))
            ELSE IF call.out # "returns" THEN InternalError(call.what)
            ELSE IF ~sv.ok THEN InternalError(sv.what)
            ELSE IF sv.v.n = 0 /\ ~mv.ok THEN InternalError(mv.what)
            ELSE call.doc
    IN [escaped |-> found /\ EscapesTask(call),
        resp |-> resp,
        invoked |-> IF found THEN 1 ELSE 0,
        hname |-> IF found THEN command.s ELSE "",
        hreq |-> IF found THEN p.doc ELSE NullDoc,
        call |-> call]

NoMsg == [st |-> "free", from |-> "none", cmd |-> NoStr, payload |-> NullDoc,
          req |-> <<>>, rdata |-> <<>>, invoked |-> 0, hname |-> "",
          hreq |-> NullDoc, call |-> NoCall, resp |-> NullDoc, sent |-> 0,
          reply |-> <<>>, res |-> "none", ret |-> NullDoc, what |-> NoStr]

\* the registries a server may be started with: any handler under "echo",
\* possibly one under the name the server uses for a missing _cmd
Registries ==
    LET names == {"echo", NoCmdName} IN
    UNION {[d -> HandlerKinds] : d \in SUBSET names}

ServerInit ==
    /\ handlers_ \in {r \in Registries :
                        NoCmdName \in DOMAIN r =>
                            \A c \in DOMAIN r : r[c] = "echo"}
    /\ running_ = FALSE
    /\ spc = "init"
    /\ sid = 0
    /\ srvDown = FALSE
    /\ netq = <<>>
    /\ msg = [k \in TaskIds |-> NoMsg]
    /\ nextConn = 1
    /\ clpc = "idle"
    /\ clconn = 0
    /\ tropen = FALSE
    /\ rcvErrors = 0
    /\ stpc = "idle"

\* Server::start(): running_ = true, bind, serve
ServerStart ==
    /\ spc = "init"
    /\ running_' = TRUE
    /\ tropen' = TRUE
    /\ spc' = "recv"
    /\ UNCHANGED otherVars
    /\ UNCHANGED <<rcvErrors, stpc>>
    /\ UNCHANGED <<usePool, handlers_, sid, srvDown, netq, msg, nextConn,
                   clpc, clconn>>
    /\ UNCHANGED poolVars

\* serve(): while (running_), and on true the call of transport_->receive,
\* which hands server_fd_ to accept / recvfrom; on false start() returns
ServerLoop ==
    /\ spc = "recv"
    /\ IF running_
         THEN spc' = "accept"
         ELSE spc' = "returned"
    /\ UNCHANGED otherVars
    /\ UNCHANGED <<tropen, rcvErrors, stpc>>
    /\ UNCHANGED <<usePool, handlers_, running_, sid, srvDown, netq, msg,
                   nextConn, clpc, clconn>>
    /\ UNCHANGED poolVars

\* receive() returns one message and the identity of its sender; a call that
\* is already inside accept / recvfrom returns a pending message also when
\* close() has run since
ServerReceive ==
    /\ spc = "accept"
    /\ netq # <<>>
    /\ LET k == Head(netq) IN
       /\ sid' = k
       /\ msg' = [msg EXCEPT ![k].st = "received",
                             ![k].rdata = ReadBuffer(msg[k].req)]
    /\ netq' = Tail(netq)
    /\ spc' = "dispatch"
    /\ UNCHANGED otherVars
    /\ UNCHANGED <<tropen, rcvErrors, stpc>>
    /\ UNCHANGED <<usePool, handlers_, running_, srvDown, nextConn, clpc,
                   clconn>>
    /\ UNCHANGED poolVars

\* a receive() blocked in accept / recvfrom whose descriptor another thread
\* closes: the system may fail the call; it need not (on Linux the blocked
\* call keeps the socket and stays blocked)
BlockedReceiveFails ==
    /\ spc = "accept"
    /\ ~tropen
    /\ rcvErrors < MaxRcvErrors
    /\ rcvErrors' = rcvErrors + 1
    /\ spc' = "recv"
    /\ UNCHANGED otherVars
    /\ UNCHANGED <<tropen, stpc>>
    /\ UNCHANGED <<usePool, handlers_, running_, sid, srvDown, netq, msg,
                   nextConn, clpc, clconn>>
    /\ UNCHANGED poolVars

\* Server::stop(), first statement: running_ = false
StopFlag ==
    /\ stpc = "idle"
    /\ spc \notin {"init", "returned", "down"}
    /\ running_' = FALSE
    /\ stpc' = "flag"
    /\ UNCHANGED otherVars
    /\ UNCHANGED <<tropen, rcvErrors>>
    /\ UNCHANGED <<usePool, handlers_, spc, sid, srvDown, netq, msg,
                   nextConn, clpc, clconn>>
    /\ UNCHANGED poolVars

\* Server::stop(), second statement: transport_->close()
StopClose ==
    /\ stpc = "flag"
    /\ tropen' = FALSE
    /\ stpc' = "done"
    /\ UNCHANGED otherVars
    /\ UNCHANGED rcvErrors
    /\ UNCHANGED <<usePool, handlers_, running_, spc, sid, srvDown, netq,
                   msg, nextConn, clpc, clconn>>
    /\ UNCHANGED poolVars

\* Server::stop() called on a server that start() has not been called on:
\* running_ = false (transport_->close() follows in StopClose)
StopFlagEarly ==
    /\ stpc = "idle"
    /\ spc = "init"
    /\ running_' = FALSE
    /\ stpc' = "flag"
    /\ UNCHANGED otherVars
    /\ UNCHANGED <<tropen, rcvErrors>>
    /\ UNCHANGED <<usePool, handlers_, spc, sid, srvDown, netq, msg,
                   nextConn, clpc, clconn>>
    /\ UNCHANGED poolVars

\* Server::start() called again after serve() has returned: running_ = true,
\* transport_->bind() makes a new socket, serve()
ServerStartAgain ==
    /\ spc = "returned"
    /\ running_' = TRUE
    /\ tropen' = TRUE
    /\ spc' = "recv"
    /\ UNCHANGED otherVars
    /\ UNCHANGED <<rcvErrors, stpc>>
    /\ UNCHANGED <<usePool, handlers_, sid, srvDown, netq, msg, nextConn,
                   clpc, clconn>>
    /\ UNCHANGED poolVars

HasPool_always == TRUE

\* if (thread_pool_)
HasPool == usePool

\* serve(): without a pool the task runs on the serving thread
ServerInline ==
    /\ spc = "dispatch"
    /\ ~HasPool
    /\ spc' = "handle"
    /\ UNCHANGED otherVars
    /\ UNCHANGED <<tropen, rcvErrors, stpc>>
    /\ UNCHANGED <<usePool, handlers_, running_, sid, srvDown, netq, msg,
                   nextConn, clpc, clconn>>
    /\ UNCHANGED poolVars

\* serve(): thread_pool_->enqueue(task); a closed pool throws, the throw is
\* caught as a receive error and the loop goes on without the message
ServerEnqueue ==
    /\ spc = "dispatch"
    /\ HasPool
    /\ Live
    /\ LET t == sid IN
       /\ tinfo' = [tinfo EXCEPT ![t] = [kind |-> "serve", fails |-> FALSE]]
       /\ IF PoolClosed
            THEN /\ rejected' = rejected \cup {t}
                 /\ msg' = [msg EXCEPT ![t].st = "dropped"]
                 /\ spc' = "recv"
                 /\ sid' = 0
                 /\ UNCHANGED <<tasks_, accepted>>
            ELSE /\ tasks_' = Append(tasks_, t)
                 /\ accepted' = accepted \cup {t}
                 /\ spc' = "notify"
                 /\ UNCHANGED <<rejected, msg, sid>>
    /\ UNCHANGED otherVars
    /\ UNCHANGED <<tropen, rcvErrors, stpc>>
    /\ UNCHANGED <<usePool, handlers_, running_, srvDown, netq, nextConn,
                   clpc, clconn>>
    /\ UNCHANGED <<nworkers, stop_, terminate_now_, wpc, wtask, joinable, fut,
                   started, finished, skipped, nextTask, ppc, cpc, cop, jidx,
                   returnedOps, beforeWait, beforeTerm, crashed>>

\* enqueue(): condition_.notify_one(), on the serving thread
ServerNotify ==
    /\ spc = "notify"
    /\ Live
    /\ spc' = "recv"
    /\ sid' = 0
    /\ \/ \E w \in Workers :
             /\ wpc[w] = "suspended"
             /\ wpc' = [wpc EXCEPT ![w] = "lock"]
       \/ /\ \A w \in Workers : wpc[w] # "suspended"
          /\ wpc' = wpc
    /\ UNCHANGED otherVars
    /\ UNCHANGED <<tropen, rcvErrors, stpc>>
    /\ UNCHANGED <<usePool, handlers_, running_, srvDown, netq, msg, nextConn,
                   clpc, clconn>>
    /\ UNCHANGED <<nworkers, tasks_, stop_, terminate_now_, wtask, joinable,
                   tinfo, fut, started, finished, skipped, accepted, rejected,
                   nextTask, ppc, cpc, cop, jidx, returnedOps, beforeWait,
                   beforeTerm, crashed>>

\* the message record after the first try block of the task has run
Handled(m, r) ==
    [m EXCEPT !.st = IF r.escaped THEN "failed" ELSE "handled",
              !.invoked = @ + r.invoked,
              !.hname = r.hname,
              !.hreq = r.hreq,
              !.call = r.call,
              !.resp = IF r.escaped THEN NullDoc ELSE r.resp]

\* transport_->send(response.dump(), client_id)
Replied(m) ==
    [m EXCEPT !.st = "replied", !.sent = @ + 1, !.reply = Dump(m.resp)]

\* task() on the serving thread, first try block; a failure that leaves the
\* lambda also passes serve()'s catch of std::exception and leaves start()
ServerHandle ==
    /\ spc = "handle"
    /\ LET r == ServeTask(handlers_, msg[sid].rdata) IN
       /\ msg' = [msg EXCEPT ![sid] = Handled(@, r)]
       /\ IF r.escaped
            THEN /\ spc' = "down"
                 /\ srvDown' = TRUE
                 /\ running_' = running_
            ELSE /\ spc' = "send"
                 /\ UNCHANGED <<srvDown, running_>>
    /\ UNCHANGED otherVars
    /\ UNCHANGED <<tropen, rcvErrors, stpc>>
    /\ UNCHANGED <<usePool, handlers_, sid, netq, nextConn, clpc, clconn>>
    /\ UNCHANGED poolVars

\* task() on the serving thread, second try block
ServerSend ==
    /\ spc = "send"
    /\ msg' = [msg EXCEPT ![sid] = Replied(@)]
    /\ spc' = "recv"
    /\ sid' = 0
    /\ UNCHANGED otherVars
    /\ UNCHANGED <<tropen, rcvErrors, stpc>>
    /\ UNCHANGED <<usePool, handlers_, running_, srvDown, netq, nextConn,
                   clpc, clconn>>
    /\ UNCHANGED poolVars

\* task() on a pool worker, first try block; a failure that leaves the
\* lambda ends in wrap_task
WorkerHandle(w) ==
    /\ Live
    /\ wpc[w] = "body"
    /\ tinfo[wtask[w]].kind = "serve"
    /\ LET t == wtask[w]
           r == ServeTask(handlers_, msg[t].rdata)
       IN /\ msg' = [msg EXCEPT ![t] = Handled(@, r)]
          /\ IF r.escaped
               THEN /\ finished' = [finished EXCEPT ![t] = @ + 1]
                    /\ wtask' = [wtask EXCEPT ![w] = NoTask]
                    /\ IF wrap_task("throws") = "escaped"
                         THEN /\ crashed' = TRUE
                              /\ wpc' = [wpc EXCEPT ![w] = "dead"]
                         ELSE /\ crashed' = crashed
                              /\ wpc' = [wpc EXCEPT ![w] = "lock"]
               ELSE /\ wpc' = [wpc EXCEPT ![w] = "send"]
                    /\ UNCHANGED <<finished, wtask, crashed>>
    /\ UNCHANGED otherVars
    /\ UNCHANGED <<tropen, rcvErrors, stpc>>
    /\ UNCHANGED <<usePool, handlers_, running_, spc, sid, srvDown, netq,
                   nextConn, clpc, clconn>>
    /\ UNCHANGED <<nworkers, tasks_, stop_, terminate_now_, joinable, tinfo,
                   fut, started, skipped, accepted, rejected, nextTask, ppc,
                   cpc, cop, jidx, returnedOps, beforeWait, beforeTerm>>

\* task() on a pool worker, second try block
WorkerSend(w) ==
    /\ Live
    /\ wpc[w] = "send"
    /\ LET t == wtask[w] IN
       /\ msg' = [msg EXCEPT ![t] = Replied(@)]
       /\ finished' = [finished EXCEPT ![t] = @ + 1]
    /\ wtask' = [wtask EXCEPT ![w] = NoTask]
    /\ wpc' = [wpc EXCEPT ![w] = "lock"]
    /\ UNCHANGED otherVars
    /\ UNCHANGED <<tropen, rcvErrors, stpc>>
    /\ UNCHANGED <<usePool, handlers_, running_, spc, sid, srvDown, netq,
                   nextConn, clpc, clconn>>
    /\ UNCHANGED <<nworkers, tasks_, stop_, terminate_now_, joinable, tinfo,
                   fut, started, skipped, accepted, rejected, nextTask, ppc,
                   cpc, cop, jidx, returnedOps, beforeWait, beforeTerm,
                   crashed>>

\* ---------------------------------------------------------------- Client
FullRequest_cmd_only(endpoint, request) ==
    SetField(NullDoc, "_cmd", JStr(endpoint))

\* send_request: full_request = request; full_request["_cmd"] = endpoint
FullRequest(endpoint, request) == SetField(request, "_cmd", JStr(endpoint))

SendRequestResult_returns_all(replyText) ==
    LET p == Parse(replyText) IN
    [res |-> "returned", ret |-> p.doc, what |-> NoStr]

\* send_request, from the reply on: parse, test _success, return or throw
SendRequestResult(replyText) ==
    LET p == Parse(replyText)
        sv == ValueOr(p.doc, "_success", "boolean", JBool(FALSE))
        mv == ValueOr(p.doc, "_msg", "string", JStr(S("Unknown server error.")))
    IN IF ~p.ok THEN [res |-> "threw", ret |-> NullDoc, what |-> p.what]
       ELSE IF ~sv.ok THEN [res |-> "threw", ret |-> NullDoc, what |-> sv.what]
       ELSE IF sv.v.n = 1 THEN [res |-> "returned", ret |-> p.doc, what |-> NoStr]
       ELSE IF ~mv.ok THEN [res |-> "threw", ret |-> NullDoc, what |-> mv.what]
       ELSE [res |-> "threw", ret |-> NullDoc,
             what |-> StrCat(S("Request failed: "), mv.v.str)]

\* the commands and payloads the client is called with
LongName == 2000

LongValue == 2025

SmallPayload == JObj([k \in {"v"} |-> JInt(7)])

LongPayload == JObj([k \in {"v"} |-> JStr(Padded("", LongValue))])

ClientCalls == {<<S("echo"), SmallPayload>>, <<S("echo"), LongPayload>>,
                <<S("nope"), SmallPayload>>,
                <<Padded("nope", LongName), SmallPayload>>}

\* what a peer that is not a Client may put on the wire: bytes that are no
\* JSON, an object without _cmd, a JSON value that is no object
RawTexts == {<<[tk |-> "junk", n |-> 0, str |-> S("hello")]>>,
             Dump(JObj([k \in {"v"} |-> JInt(7)])),
             Dump(JDoc(JInt(7)))}

\* a peer can reach the server while its socket is bound and open
Listening == spc \notin {"init", "down", "returned"} /\ tropen

\* send_request up to the transport's write: connect and send the request
ClientSend(cmd, payload) ==
    /\ clpc = "idle"
    /\ Listening
    /\ nextConn <= MaxTasks
    /\ LET k == nextConn IN
       /\ msg' = [msg EXCEPT ![k] =
                     [NoMsg EXCEPT !.st = "queued", !.from = "client",
                                   !.cmd = cmd, !.payload = payload,
                                   !.req = Dump(FullRequest(cmd, payload))]]
       /\ netq' = Append(netq, k)
       /\ clconn' = k
    /\ nextConn' = nextConn + 1
    /\ clpc' = "wait"
    /\ UNCHANGED otherVars
    /\ UNCHANGED <<tropen, rcvErrors, stpc>>
    /\ UNCHANGED <<usePool, handlers_, running_, spc, sid, srvDown>>
    /\ UNCHANGED poolVars

\* send_request from the transport's read on
ClientReturn ==
    /\ clpc = "wait"
    /\ msg[clconn].st = "replied"
    /\ LET r == SendRequestResult(ReadBuffer(msg[clconn].reply)) IN
       msg' = [msg EXCEPT ![clconn].res = r.res, ![clconn].ret = r.ret,
                          ![clconn].what = r.what]
    /\ clpc' = "idle"
    /\ clconn' = 0
    /\ UNCHANGED otherVars
    /\ UNCHANGED <<tropen, rcvErrors, stpc>>
    /\ UNCHANGED <<usePool, handlers_, running_, spc, sid, srvDown, netq,
                   nextConn>>
    /\ UNCHANGED poolVars

\* another peer writes a message to the server's socket
RawSend(text) ==
    /\ Listening
    /\ nextConn <= MaxTasks
    /\ LET k == nextConn IN
       /\ msg' = [msg EXCEPT ![k] =
                     [NoMsg EXCEPT !.st = "queued", !.from = "raw",
                                   !.req = text]]
       /\ netq' = Append(netq, k)
    /\ nextConn' = nextConn + 1
    /\ UNCHANGED otherVars
    /\ UNCHANGED <<tropen, rcvErrors, stpc>>
    /\ UNCHANGED <<usePool, handlers_, running_, spc, sid, srvDown, clpc,
                   clconn>>
    /\ UNCHANGED poolVars


\* ------------------------------------------- a Client used by several threads
\* the callbacks an application may pass to send_request_bg
\*   ok:                return
\*   throws_std:        throw std::runtime_error("cb failed")
\*   throws_other:      throw 42
\*   throws_on_success: if (r["_success"]) throw std::runtime_error("cb failed")
CallbackKinds == {"ok", "throws_std", "throws_other", "throws_on_success"}

CallbackOutcome(cb, arg) ==
    CASE cb = "throws_std" -> "throws_std"
      [] cb = "throws_other" -> "throws_other"
      [] cb = "throws_on_success" ->
           IF /\ "_success" \in DOMAIN arg.f
              /\ arg.f["_success"] = JBool(TRUE)
             THEN "throws_std" ELSE "returns"
      [] OTHER -> "returns"

CallbackWhat == S("cb failed")

\* send_request_bg, catch block: json{{"_success", false}, {"_msg", e.what()}}
BgFailure(what) ==
    JObj([k \in {"_success", "_msg"} |->
            IF k = "_success" THEN JBool(FALSE) ELSE JStr(what)])

\* a payload that already carries a _cmd field
CmdPayload == JObj([k \in {"_cmd", "v"} |->
                      IF k = "_cmd" THEN JStr(S("other")) ELSE JInt(7)])

\* the calls made on the client: send_request, send_request_async,
\* send_request_bg with each kind of callback
CallerCalls ==
    {[mode |-> "sync", cb |-> "none", payload |-> pl] :
        pl \in {SmallPayload, CmdPayload}}
    \cup {[mode |-> "async", cb |-> "none", payload |-> SmallPayload]}
    \cup {[mode |-> "bg", cb |-> cb, payload |-> SmallPayload] :
             cb \in CallbackKinds}

\* what the peer may answer: a success envelope, a failure envelope with and
\* without _msg, an object without _success, bytes that are no JSON
ReplyTexts ==
    {Dump(okay(SmallPayload)),
     Dump(error(NullDoc, S("bad"))),
     Dump(JObj([k \in {"_success"} |-> JBool(FALSE)])),
     Dump(JObj([k \in {"_msg", "v"} |->
                  IF k = "_msg" THEN JStr(S("late")) ELSE JInt(1)])),
     <<[tk |-> "junk", n |-> 0, str |-> S("hello")]>>}

NoCaller == [pc |-> "idle", mode |-> "none", cb |-> "none", cmd |-> NoStr,
             payload |-> NullDoc, wire |-> <<>>, reply |-> <<>>,
             res |-> "none", ret |-> NullDoc, what |-> NoStr,
             cbargs |-> <<>>]

\* a thread calls send_request / send_request_async / send_request_bg; the
\* latter two start the thread that runs send_request
CallerCall(t, call) ==
    /\ ~terminated
    /\ client_alive
    /\ cth[t].pc = "idle"
    /\ cth' = [cth EXCEPT ![t] = [NoCaller EXCEPT !.pc = "lock",
                                                  !.mode = call.mode,
                                                  !.cb = call.cb,
                                                  !.cmd = S("echo"),
                                                  !.payload = call.payload]]
    /\ UNCHANGED <<mutex_, terminated>>
    /\ UNCHANGED <<poolVars, srvVars, trVars, valVars, udpVars, moreVars>>

mutex_never_held == TRUE

\* std::lock_guard<std::mutex> lock(mutex_) can be constructed
mutex_free == mutex_ = 0

\* send_request: take the lock, build full_request, hand its dump to the
\* transport, which connects, writes and blocks in read
CallerSend(t) ==
    /\ ~terminated
    /\ cth[t].pc = "lock"
    /\ mutex_free
    /\ mutex_' = t
    /\ cth' = [cth EXCEPT ![t].pc = "trip",
                          ![t].wire = Dump(FullRequest(cth[t].cmd,
                                                       cth[t].payload))]
    /\ UNCHANGED terminated
    /\ UNCHANGED <<poolVars, srvVars, trVars, valVars, udpVars, moreVars>>

\* send_request from the transport's read on: parse, test _success, return
\* or throw; the lock_guard unlocks either way.  In send_request_bg the
\* thread goes on to the callback, in its try block or in its catch block
CallerReturn(t, replyText) ==
    /\ ~terminated
    /\ cth[t].pc = "trip"
    /\ LET r == SendRequestResult(ReadBuffer(replyText)) IN
       cth' = [cth EXCEPT ![t].reply = replyText,
                          ![t].res = r.res,
                          ![t].ret = r.ret,
                          ![t].what = r.what,
                          ![t].pc = IF cth[t].mode # "bg" THEN "done"
                                    ELSE IF r.res = "returned" THEN "cb_try"
                                    ELSE "cb_catch"]
    /\ mutex_' = IF mutex_ = t THEN 0 ELSE mutex_
    /\ UNCHANGED terminated
    /\ UNCHANGED <<poolVars, srvVars, trVars, valVars, udpVars, moreVars>>

\* send_request_bg, try block: callback(response)
CallbackTry(t) ==
    /\ ~terminated
    /\ cth[t].pc = "cb_try"
    /\ LET arg == cth[t].ret
           out == CallbackOutcome(cth[t].cb, arg)
       IN /\ cth' = [cth EXCEPT ![t].cbargs = Append(@, arg),
                                ![t].what = IF out = "throws_std"
                                            THEN CallbackWhat ELSE @,
                                ![t].pc = CASE out = "returns" -> "done"
                                            [] out = "throws_std" -> "cb_catch"
                                            [] OTHER -> "dead"]
          /\ terminated' = (out = "throws_other")
    /\ UNCHANGED mutex_
    /\ UNCHANGED <<poolVars, srvVars, trVars, valVars, udpVars, moreVars>>

\* send_request_bg, catch (const std::exception &e): callback(failure); a
\* failure raised here leaves the thread function
CallbackCatch(t) ==
    /\ ~terminated
    /\ cth[t].pc = "cb_catch"
    /\ LET arg == BgFailure(cth[t].what)
           out == CallbackOutcome(cth[t].cb, arg)
       IN /\ cth' = [cth EXCEPT ![t].cbargs = Append(@, arg),
                                ![t].pc = IF out = "returns" THEN "done"
                                          ELSE "dead"]
          /\ terminated' = (out # "returns")
    /\ UNCHANGED mutex_
    /\ UNCHANGED <<poolVars, srvVars, trVars, valVars, udpVars, moreVars>>

\* ~Client(): transport_->close(), then mutex_ and transport_ are destroyed.
\* The owner calls it when none of its own send_request calls is under way;
\* the threads of send_request_bg are detached and a future of
\* send_request_async may outlive the client, so neither holds it back
ClientDestroy ==
    /\ ~terminated
    /\ client_alive
    /\ \A t \in Callers : cth[t].mode = "sync" => cth[t].pc = "done"
    /\ client_alive' = FALSE
    /\ UNCHANGED <<cliVars, rcvVars, reuseVars, pathVars>>
    /\ UNCHANGED <<poolVars, srvVars, trVars, valVars, udpVars>>

\* a thread that locks mutex_, calls transport_->send or unlocks mutex_ of a
\* destroyed Client reads freed memory: it may go on as if the object were
\* there (CallerSend, CallerReturn) or the process may end here
DanglingUse(t) ==
    /\ ~terminated
    /\ ~client_alive
    /\ cth[t].pc \in {"lock", "trip"}
    /\ cth' = [cth EXCEPT ![t].pc = "dead"]
    /\ terminated' = TRUE
    /\ UNCHANGED <<mutex_, rcvVars, tdVars, reuseVars, pathVars>>
    /\ UNCHANGED <<poolVars, srvVars, trVars, valVars, udpVars>>

\* --------------------------------------------- the transports' descriptors
\* descriptors 0..2 are the standard streams; sockets get the lowest free one
FirstFd == 3

MaxFd == 5

Fds == FirstFd..MaxFd

NoFd == -1

\* the UDP peers, by their port on 127.0.0.1
PeerPorts == {40001, 40002}

\* a reply identity: std::to_string(client_fd), "ip:port", or another string
FdId(fd) == [form |-> "fd", n |-> fd]

AddrId(port) == [form |-> "addr", n |-> port]

NoId == [form |-> "none", n |-> 0]

Identities ==
    {FdId(fd) : fd \in Fds} \cup {AddrId(p) : p \in PeerPorts}
    \cup {[form |-> "text", n |-> 0], [form |-> "badport", n |-> 0]}

\* strings no receive() of the backend returns: "abc", "127.0.0.1:abc", and
\* the other backends' form of identity
ForeignIds(b) ==
    {[form |-> "text", n |-> 0], [form |-> "badport", n |-> 0]}
    \cup (IF b = "udp" THEN {FdId(FirstFd + 1)}
          ELSE {AddrId(p) : p \in PeerPorts})

\* std::stoi(client_id): the leading digits, std::invalid_argument without
StoiId(id) ==
    CASE id.form = "fd" -> [ok |-> TRUE, n |-> id.n]
      [] id.form \in {"addr", "badport"} -> [ok |-> TRUE, n |-> 127]
      [] OTHER -> [ok |-> FALSE, n |-> 0]

\* client_id.find(":") != npos, and std::stoi of what follows the colon
HasColon(id) == id.form \in {"addr", "badport"}

StoiPort(id) ==
    IF id.form = "addr" THEN [ok |-> TRUE, n |-> id.n]
    ELSE [ok |-> FALSE, n |-> 0]

LowestFree(t) ==
    CHOOSE fd \in Fds :
        t[fd] = "free" /\ \A g \in Fds : g < fd => t[g] # "free"

NoOp == [op |-> "none", id |-> NoId, out |-> "none", rel |-> 0,
         double |-> FALSE, fd0 |-> NoFd,
         fdt0 |-> [fd \in Fds |-> "free"], path0 |-> "absent", peers0 |-> {}]

\* the record of a call made in the current state
OpNow(op, id, out) ==
    [NoOp EXCEPT !.op = op, !.id = id, !.out = out, !.fd0 = server_fd_,
                 !.fdt0 = fdt, !.path0 = path_, !.peers0 = peers]

\* bind(): socket, (unlink,) ::bind, (listen); a failing ::bind throws and
\* leaves the new socket in server_fd_
TransportBind(ok) ==
    /\ ~killed
    /\ server_fd_ = NoFd
    /\ \E fd \in Fds : fdt[fd] = "free"
    /\ LET fd == LowestFree(fdt) IN
       /\ server_fd_' = fd
       /\ fdt' = [fdt EXCEPT ![fd] = IF ok THEN "own" ELSE "sock"]
    /\ path_' = IF backend # "unix" THEN path_
                ELSE IF ok THEN "bound" ELSE "absent"
    /\ lastop' = OpNow("bind", NoId, IF ok THEN "ok" ELSE "threw")
    /\ UNCHANGED <<backend, peers, handed, killed>>
    /\ UNCHANGED <<poolVars, srvVars, cliVars, valVars, udpVars, moreVars>>

\* the transport's socket is bound (and listening)
Bound == server_fd_ # NoFd /\ fdt[server_fd_] = "own"

\* receive() without a bound socket: accept / recvfrom fails, receive throws
TransportReceiveFails ==
    /\ ~killed
    /\ ~Bound
    /\ lastop' = OpNow("receive", NoId, "threw")
    /\ UNCHANGED <<backend, server_fd_, fdt, path_, peers, handed, killed>>
    /\ UNCHANGED <<poolVars, srvVars, cliVars, valVars, udpVars, moreVars>>

\* receive(): accept and read on the stream backends, recvfrom on UDP; the
\* identity is the new descriptor's number, or the sender's "ip:port"
TransportReceive ==
    /\ ~killed
    /\ Bound
    /\ IF backend = "udp"
         THEN \E p \in peers :
                /\ handed' = handed \cup {AddrId(p)}
                /\ lastop' = OpNow("receive", AddrId(p), "ok")
                /\ fdt' = fdt
         ELSE /\ \E fd \in Fds : fdt[fd] = "free"
              /\ LET fd == LowestFree(fdt) IN
                 /\ fdt' = [fdt EXCEPT ![fd] = "conn"]
                 /\ handed' = handed \cup {FdId(fd)}
                 /\ lastop' = OpNow("receive", FdId(fd), "ok")
    /\ UNCHANGED <<backend, server_fd_, path_, peers, killed>>
    /\ UNCHANGED <<poolVars, srvVars, cliVars, valVars, udpVars, moreVars>>

\* a peer goes away: it closes its end of the connection, or its UDP socket
PeerGone ==
    /\ ~killed
    /\ IF backend = "udp"
         THEN /\ \E p \in peers : peers' = peers \ {p}
              /\ fdt' = fdt
         ELSE /\ \E fd \in Fds :
                   /\ fdt[fd] = "conn"
                   /\ fdt' = [fdt EXCEPT ![fd] = "gone"]
              /\ peers' = peers
    /\ lastop' = OpNow("none", NoId, "none")
    /\ UNCHANGED <<backend, server_fd_, path_, handed, killed>>
    /\ UNCHANGED <<poolVars, srvVars, cliVars, valVars, udpVars, moreVars>>

close_client_fd_skipped(t, fd) == t

\* ::close(client_fd) at the end of send(data, client_id)
close_client_fd(t, fd) == [t EXCEPT ![fd] = "free"]

\* UnixSocketTransport / TcpTransport::send(data, client_id): stoi, write
\* (result not looked at), ::close.  A write to a connection whose peer is
\* gone is lost, or raises SIGPIPE
StreamSendTo(id, sigpipe) ==
    LET st == StoiId(id)
        state == IF st.ok /\ st.n \in Fds THEN fdt[st.n] ELSE "free"
    IN [out |-> IF ~st.ok THEN "threw"
                ELSE IF state = "conn" THEN "delivered"
                ELSE IF state = "gone" /\ sigpipe THEN "killed"
                ELSE "silent",
        fdt |-> IF st.ok /\ state # "free"
                  THEN close_client_fd(fdt, st.n) ELSE fdt]

\* UdpTransport::send(data, client_id): return without a colon, stoi of the
\* port, inet_pton and sendto (results not looked at)
UdpSendTo(id) ==
    [out |-> IF ~HasColon(id) THEN "silent"
             ELSE IF ~StoiPort(id).ok THEN "threw"
             ELSE IF Bound /\ id.n \in peers THEN "delivered"
             ELSE "silent",
     fdt |-> fdt]

\* send(data, client_id) with an identity receive() has returned, now or
\* earlier, or with another string
TransportSendTo(id, sigpipe) ==
    /\ ~killed
    /\ id \in handed \cup ForeignIds(backend)
    /\ LET r == IF backend = "udp" THEN UdpSendTo(id)
                ELSE StreamSendTo(id, sigpipe)
       IN /\ fdt' = r.fdt
          /\ lastop' = OpNow("send", id, r.out)
          /\ killed' = (r.out = "killed")
    /\ UNCHANGED <<backend, server_fd_, path_, peers, handed>>
    /\ UNCHANGED <<poolVars, srvVars, cliVars, valVars, udpVars, moreVars>>

fd_after_close_kept(fd) == fd

\* close(): server_fd_ = -1 / sock_ = -1
fd_after_close(fd) == NoFd

\* close(): if (server_fd_ != -1) { ::close(server_fd_); (unlink;) ... }
TransportClose ==
    /\ ~killed
    /\ IF server_fd_ # NoFd
         THEN /\ fdt' = [fdt EXCEPT ![server_fd_] = "free"]
              /\ path_' = IF backend = "unix" THEN "absent" ELSE path_
              /\ server_fd_' = fd_after_close(server_fd_)
              /\ lastop' = [OpNow("close", NoId, "ok") EXCEPT
                               !.rel = 1,
                               !.double = (fdt[server_fd_] = "free")]
         ELSE /\ lastop' = OpNow("close", NoId, "ok")
              /\ UNCHANGED <<fdt, path_, server_fd_>>
    /\ UNCHANGED <<backend, peers, handed, killed>>
    /\ UNCHANGED <<poolVars, srvVars, cliVars, valVars, udpVars, moreVars>>


\* ------------------------------------------ the serve loop over a transport
\* client_id as the serving thread holds it between receive() and send()
HeldId == IF backend = "udp" THEN AddrId(sid) ELSE FdId(sid)

\* Server::start(): running_ = true, transport_->bind(), serve()
ServeStart ==
    /\ spc = "init"
    /\ running_' = TRUE
    /\ LET fd == LowestFree(fdt) IN
       /\ server_fd_' = fd
       /\ fdt' = [fdt EXCEPT ![fd] = "own"]
    /\ path_' = IF backend = "unix" THEN "bound" ELSE path_
    /\ tropen' = TRUE
    /\ spc' = "recv"
    /\ lastop' = OpNow("bind", NoId, "ok")
    /\ UNCHANGED <<backend, peers, handed, killed>>
    /\ UNCHANGED <<usePool, handlers_, sid, srvDown, netq, msg, nextConn,
                   clpc, clconn, rcvErrors, stpc>>
    /\ UNCHANGED <<poolVars, cliVars, valVars, udpVars, moreVars>>

\* serve(): transport_->receive(client_id) returns a message
ServeReceive ==
    /\ spc = "accept"
    /\ Bound
    /\ IF backend = "udp"
         THEN \E p \in peers :
                /\ handed' = handed \cup {AddrId(p)}
                /\ lastop' = OpNow("receive", AddrId(p), "ok")
                /\ sid' = p
                /\ fdt' = fdt
         ELSE /\ \E fd \in Fds : fdt[fd] = "free"
              /\ LET fd == LowestFree(fdt) IN
                 /\ fdt' = [fdt EXCEPT ![fd] = "conn"]
                 /\ handed' = handed \cup {FdId(fd)}
                 /\ lastop' = OpNow("receive", FdId(fd), "ok")
                 /\ sid' = fd
    /\ spc' = "send"
    /\ UNCHANGED <<backend, server_fd_, path_, peers, killed>>
    /\ UNCHANGED <<usePool, handlers_, running_, srvDown, netq, msg,
                   nextConn, clpc, clconn, tropen, rcvErrors, stpc>>
    /\ UNCHANGED <<poolVars, cliVars, valVars, udpVars, moreVars>>

\* serve(): receive() throws (accept / recvfrom fails, or the read gives
\* nothing); the outer catch logs "Receive error" and the loop goes on
ServeReceiveFails ==
    /\ spc = "accept"
    /\ rcvErrors < MaxRcvErrors
    /\ rcvErrors' = rcvErrors + 1
    /\ spc' = "recv"
    /\ lastop' = OpNow("receive", NoId, "threw")
    /\ UNCHANGED <<backend, server_fd_, fdt, path_, peers, handed, killed>>
    /\ UNCHANGED <<usePool, handlers_, running_, sid, srvDown, netq, msg,
                   nextConn, clpc, clconn, tropen, stpc>>
    /\ UNCHANGED <<poolVars, cliVars, valVars, udpVars, moreVars>>

\* task(), second try block: transport_->send(response.dump(), client_id).
\* The transports look at no result of write / sendto, so a reply that
\* cannot be written is lost without a word, or the write raises SIGPIPE,
\* whose default action ends the process
ServeSend(sigpipe) ==
    /\ spc = "send"
    /\ LET r == IF backend = "udp" THEN UdpSendTo(HeldId)
                ELSE StreamSendTo(HeldId, sigpipe)
       IN /\ fdt' = r.fdt
          /\ lastop' = OpNow("send", HeldId, r.out)
          /\ killed' = (r.out = "killed")
          /\ spc' = IF r.out = "killed" THEN "killed" ELSE "recv"
    /\ sid' = 0
    /\ UNCHANGED <<backend, server_fd_, path_, peers, handed>>
    /\ UNCHANGED <<usePool, handlers_, running_, srvDown, netq, msg,
                   nextConn, clpc, clconn, tropen, rcvErrors, stpc>>
    /\ UNCHANGED <<poolVars, cliVars, valVars, udpVars, moreVars>>

\* Server::stop(), second statement, on the transport's descriptor
ServeStopClose ==
    /\ stpc = "flag"
    /\ ~killed
    /\ stpc' = "done"
    /\ tropen' = FALSE
    /\ IF server_fd_ # NoFd
         THEN /\ fdt' = [fdt EXCEPT ![server_fd_] = "free"]
              /\ path_' = IF backend = "unix" THEN "absent" ELSE path_
              /\ server_fd_' = fd_after_close(server_fd_)
         ELSE UNCHANGED <<fdt, path_, server_fd_>>
    /\ lastop' = OpNow("close", NoId, "ok")
    /\ UNCHANGED <<backend, peers, handed, killed>>
    /\ UNCHANGED <<usePool, handlers_, running_, spc, sid, srvDown, netq,
                   msg, nextConn, clpc, clconn, rcvErrors>>
    /\ UNCHANGED <<poolVars, cliVars, valVars, udpVars, moreVars>>

\* ------------------------------------- a pool behind a stream transport
\* a server with a pool on the unix or tcp backend: the serving thread
\* accepts, the task captures client_id by value, a worker writes and closes
NoHeld == [fd |-> NoFd, conn |-> 0]

\* write() on a descriptor that refers to no connection fails with EBADF
BadWrite == -1

\* receive() on a stream backend: accept gives the lowest free descriptor,
\* which now refers to the peer's connection; client_id is its number
PoolReceive ==
    /\ Live
    /\ spc = "accept"
    /\ Bound
    /\ nextConn <= MaxTasks
    /\ \E fd \in Fds : fdt[fd] = "free"
    /\ LET fd == LowestFree(fdt) IN
       /\ fdt' = [fdt EXCEPT ![fd] = "conn"]
       /\ conn_at' = [conn_at EXCEPT ![fd] = nextConn]
       /\ handed' = handed \cup {FdId(fd)}
       /\ lastop' = OpNow("receive", FdId(fd), "ok")
       /\ sid' = fd
    /\ nextConn' = nextConn + 1
    /\ spc' = "dispatch"
    /\ UNCHANGED <<backend, server_fd_, path_, peers, killed>>
    /\ UNCHANGED <<usePool, handlers_, running_, srvDown, netq, msg, clpc,
                   clconn, tropen, rcvErrors, stpc>>
    /\ UNCHANGED <<held, wrote>>
    /\ UNCHANGED <<poolVars, cliVars, valVars, udpVars, rcvVars, tdVars, pathVars>>

\* serve(): the lambda [this, data, client_id] is handed to enqueue()
PoolEnqueue ==
    /\ Live
    /\ spc = "dispatch"
    /\ nextTask <= MaxTasks
    /\ LET t == nextTask IN
       /\ nextTask' = t + 1
       /\ tinfo' = [tinfo EXCEPT ![t] = [kind |-> "reply", fails |-> FALSE]]
       /\ held' = [held EXCEPT ![t] = [fd |-> sid, conn |-> conn_at[sid]]]
       /\ IF PoolClosed
            THEN /\ rejected' = rejected \cup {t}
                 /\ spc' = "recv"
                 /\ UNCHANGED <<tasks_, accepted>>
            ELSE /\ tasks_' = Append(tasks_, t)
                 /\ accepted' = accepted \cup {t}
                 /\ spc' = "notify"
                 /\ UNCHANGED rejected
    /\ UNCHANGED <<nworkers, stop_, terminate_now_, wpc, wtask, joinable, fut,
                   started, finished, skipped, ppc, cpc, cop, jidx,
                   returnedOps, beforeWait, beforeTerm, crashed>>
    /\ UNCHANGED <<usePool, handlers_, running_, sid, srvDown, netq, msg,
                   nextConn, clpc, clconn, tropen, rcvErrors, stpc>>
    /\ UNCHANGED <<conn_at, wrote>>
    /\ UNCHANGED <<cliVars, trVars, valVars, udpVars, rcvVars, tdVars, pathVars>>

CapturedId_latest(t) == sid

\* the client_id inside the task: the copy made when the lambda was built
CapturedId(t) == held[t].fd

\* the task on a worker up to the write of send(data, client_id): parse,
\* handle, int client_fd = std::stoi(client_id); write(client_fd, ...)
WorkerWrite(w) ==
    /\ Live
    /\ wpc[w] = "body"
    /\ tinfo[wtask[w]].kind = "reply"
    /\ LET t == wtask[w]
           fd == CapturedId(t)
       IN wrote' = [wrote EXCEPT ![t] =
                       IF fd \in Fds /\ conn_at[fd] # 0 THEN conn_at[fd]
                       ELSE BadWrite]
    /\ wpc' = [wpc EXCEPT ![w] = "close"]
    /\ UNCHANGED <<nworkers, tasks_, stop_, terminate_now_, wtask, joinable,
                   tinfo, fut, started, finished, skipped, accepted, rejected,
                   nextTask, ppc, cpc, cop, jidx, returnedOps, beforeWait,
                   beforeTerm, crashed>>
    /\ UNCHANGED <<conn_at, held>>
    /\ UNCHANGED <<srvVars, cliVars, trVars, valVars, udpVars, rcvVars, tdVars, pathVars>>

\* send(data, client_id), last statement: ::close(client_fd); the task ends
WorkerClose(w) ==
    /\ Live
    /\ wpc[w] = "close"
    /\ LET t == wtask[w]
           fd == CapturedId(t)
       IN /\ fdt' = IF fd \in Fds /\ fdt[fd] = "conn"
                      THEN close_client_fd(fdt, fd) ELSE fdt
          /\ conn_at' = IF fd \in Fds /\ fdt[fd] = "conn"
                          THEN [conn_at EXCEPT ![fd] = 0] ELSE conn_at
          /\ finished' = [finished EXCEPT ![t] = @ + 1]
          /\ lastop' = OpNow("send", FdId(fd), "delivered")
    /\ wtask' = [wtask EXCEPT ![w] = NoTask]
    /\ wpc' = [wpc EXCEPT ![w] = "lock"]
    /\ UNCHANGED <<nworkers, tasks_, stop_, terminate_now_, joinable, tinfo,
                   fut, started, skipped, accepted, rejected, nextTask, ppc,
                   cpc, cop, jidx, returnedOps, beforeWait, beforeTerm,
                   crashed>>
    /\ UNCHANGED <<backend, server_fd_, path_, peers, handed, killed>>
    /\ UNCHANGED <<held, wrote>>
    /\ UNCHANGED <<srvVars, cliVars, valVars, udpVars, rcvVars, tdVars, pathVars>>

\* ------------------------------------ two unix transports on one path
\* two UnixSocketTransport objects constructed with the same socket_path
Insts == {"a", "b"}

\* processes that connect through the path
UnixPeers == {"p", "q"}

\* sockets created by bind() in the explored behaviours
MaxSockets == 4

NotTried == [tried |-> FALSE, sock |-> 0]

\* instance i is bound and a connect() through the path arrives at its socket
Reachable(i) == inst_fd[i] # NoFd /\ path_sock = inst_fd[i]

\* bind(): socket(); unlink(socket_path_); ::bind; listen.  The path is
\* removed whatever it referred to, then created anew for this socket; a
\* descriptor the instance held before is overwritten and stays open
UnixBind(i) ==
    /\ next_sock <= MaxSockets
    /\ inst_fd' = [inst_fd EXCEPT ![i] = next_sock]
    /\ path_sock' = next_sock
    /\ listening' = listening \cup {next_sock}
    /\ next_sock' = next_sock + 1
    /\ UNCHANGED reached
    /\ UNCHANGED <<poolVars, srvVars, cliVars, trVars, valVars, udpVars,
                   rcvVars, tdVars, reuseVars>>

\* close(): if (server_fd_ != -1) { ::close; unlink(socket_path_);
\* server_fd_ = -1; }; with server_fd_ == -1 nothing happens
UnixClose(i) ==
    /\ inst_fd[i] # NoFd
    /\ listening' = listening \ {inst_fd[i]}
    /\ path_sock' = 0
    /\ inst_fd' = [inst_fd EXCEPT ![i] = NoFd]
    /\ UNCHANGED <<next_sock, reached>>
    /\ UNCHANGED <<poolVars, srvVars, cliVars, trVars, valVars, udpVars,
                   rcvVars, tdVars, reuseVars>>

\* send(data) of a client-side transport, up to connect(): it arrives at the
\* listening socket the path refers to, or fails when there is none
UnixConnect(p) ==
    /\ reached' = [reached EXCEPT ![p] =
                      [tried |-> TRUE,
                       sock |-> IF path_sock \in listening THEN path_sock
                                ELSE 0]]
    /\ UNCHANGED <<inst_fd, path_sock, listening, next_sock>>
    /\ UNCHANGED <<poolVars, srvVars, cliVars, trVars, valVars, udpVars,
                   rcvVars, tdVars, reuseVars>>

\* --------------------------------------------------- UDP reply identities
\* an IPv4 address and port as sockaddr_in holds them: sin_addr as its four
\* bytes, sin_port as the 16-bit number a little-endian host reads from
\* the two bytes in network order
Swap16(n) == (n % 256) * 256 + (n \div 256)

ntohs(n) == Swap16(n)

htons_forgotten(n) == n % 65536

\* htons(port) of an int: the low 16 bits, in network order
htons(n) == Swap16(n % 65536)

DigitChars == <<"0", "1", "2", "3", "4", "5", "6", "7", "8", "9">>

IsDigit(c) == \E d \in 1..10 : DigitChars[d] = c

DigitVal(c) == (CHOOSE d \in 1..10 : DigitChars[d] = c) - 1

\* std::to_string of a non-negative number, and the %d of inet_ntoa
RECURSIVE to_string(_)
to_string(n) ==
    IF n < 10 THEN DigitChars[n + 1]
    ELSE to_string(n \div 10) \o DigitChars[(n % 10) + 1]

\* inet_ntoa: "%d.%d.%d.%d" of the four bytes
inet_ntoa(a) ==
    to_string(a[1]) \o "." \o to_string(a[2]) \o "." \o to_string(a[3])
    \o "." \o to_string(a[4])

\* s.find(c): the first position of c, 0 for npos
RECURSIVE find(_, _, _)
find(s, c, i) ==
    IF i > Len(s) THEN 0
    ELSE IF SubSeq(s, i, i) = c THEN i ELSE find(s, c, i + 1)

\* std::stoi: the value of the leading digits; invalid_argument without
RECURSIVE LeadingDigits(_, _, _)
LeadingDigits(s, i, acc) ==
    IF i > Len(s) \/ ~IsDigit(SubSeq(s, i, i)) THEN acc
    ELSE LeadingDigits(s, i + 1, acc * 10 + DigitVal(SubSeq(s, i, i)))

stoi(s) ==
    IF Len(s) = 0 \/ ~IsDigit(SubSeq(s, 1, 1)) THEN [ok |-> FALSE, n |-> 0]
    ELSE [ok |-> TRUE, n |-> LeadingDigits(s, 1, 0)]

\* inet_pton(AF_INET, ...): four parts of one to three digits, each at
\* most 255 and without a leading zero, separated by dots; anything else
\* is refused
RECURSIVE PtonParts(_, _, _)
PtonParts(s, i, parts) ==
    LET dot == find(s, ".", i)
        last == IF dot = 0 THEN Len(s) ELSE dot - 1
        part == SubSeq(s, i, last)
        ok == /\ Len(part) \in 1..3
              /\ \A k \in 1..Len(part) : IsDigit(SubSeq(part, k, k))
              /\ Len(part) > 1 => SubSeq(part, 1, 1) # "0"
              /\ LeadingDigits(part, 1, 0) <= 255
    IN IF ~ok THEN <<>>
       ELSE IF dot = 0 THEN Append(parts, LeadingDigits(part, 1, 0))
       ELSE PtonParts(s, dot + 1, Append(parts, LeadingDigits(part, 1, 0)))

\* sockaddr_in client_addr{}: all zero
ZeroAddr == [sin_addr |-> <<0, 0, 0, 0>>, sin_port |-> 0]

\* the result of inet_pton is not looked at: a refused text leaves the
\* zeroed sin_addr
inet_pton(s, before) ==
    IF Len(PtonParts(s, 1, <<>>)) = 4 THEN PtonParts(s, 1, <<>>) ELSE before

\* UdpTransport::receive: client_id = inet_ntoa(sin_addr) + ":" +
\* std::to_string(ntohs(sin_port))
WriteIdentity(addr) ==
    inet_ntoa(addr.sin_addr) \o ":" \o to_string(ntohs(addr.sin_port))

\* UdpTransport::send(data, client_id): the sockaddr_in built for sendto
ReadIdentity(id) ==
    LET delim == find(id, ":", 1)
        ip == SubSeq(id, 1, delim - 1)
        port == stoi(SubSeq(id, delim + 1, Len(id)))
    IN IF delim = 0 THEN [out |-> "returned", addr |-> ZeroAddr]
       ELSE IF ~port.ok THEN [out |-> "threw", addr |-> ZeroAddr]
       ELSE [out |-> "sendto",
             addr |-> [sin_addr |-> inet_pton(ip, ZeroAddr.sin_addr),
                       sin_port |-> htons(port.n)]]

NoSockaddr == [out |-> "none", addr |-> ZeroAddr]

\* the senders of datagrams: addresses with one-, two- and three-digit
\* bytes and ports of one to five digits
AddrBytes == {0, 7, 10, 127, 255}

SourcePorts == {1, 80, 256, 5000, 40001, 65535}

SourceAddrs ==
    {[sin_addr |-> <<a, b, 0, d>>, sin_port |-> Swap16(p)] :
        a \in AddrBytes, b \in {0, 168}, d \in AddrBytes, p \in SourcePorts}

UdpReceive ==
    /\ client_id = ""
    /\ client_id' = WriteIdentity(client_addr)
    /\ UNCHANGED <<client_addr, dest_addr>>
    /\ UNCHANGED <<poolVars, srvVars, cliVars, trVars, valVars, moreVars>>

UdpSend ==
    /\ client_id # ""
    /\ dest_addr.out = "none"
    /\ dest_addr' = ReadIdentity(client_id)
    /\ UNCHANGED <<client_addr, client_id>>
    /\ UNCHANGED <<poolVars, srvVars, cliVars, trVars, valVars, moreVars>>

\* ------------------------------------------------------ the receive step
\* every receive(client_id) and every send(data) reads the peer's message
\* with one read / recvfrom into `char buffer[2048] = {}`, asking for
\* sizeof(buffer) - 1 bytes, and fails when the call returns len <= 0
NotReceived == [out |-> "none", data |-> <<>>, what |-> ""]

ReadFailure(b, r) ==
    IF r = "server"
      THEN CASE b = "unix" -> "Failed to read request"
             [] b = "udp" -> "Failed to receive from UDP socket"
             [] OTHER -> "Failed to read from TCP client"
    ELSE CASE b = "unix" -> "Failed to read response from UNIX socket"
           [] b = "udp" -> "Failed to receive UDP response"
           [] OTHER -> "Failed to read from TCP server"

\* len <= 0: throw; otherwise return std::string(buffer, len)
ReceiveStep(b, r, text) ==
    IF TextBytes(ReadBuffer(text)) <= 0
      THEN [out |-> "throws", data |-> <<>>, what |-> ReadFailure(b, r)]
    ELSE [out |-> "returned", data |-> ReadBuffer(text), what |-> ""]

\* a message of n bytes that is no JSON
RawWire(n) ==
    IF n = 0 THEN <<>>
    ELSE <<[tk |-> "junk", n |-> 0, str |-> Padded("", n)]>>

\* what a peer sends: nothing, short messages, messages around the size of
\* the buffer, long ones, and two requests a Client writes
WireTexts ==
    {RawWire(n) : n \in {0, 1, 100, 2046, 2047, 2048, 2049, 3000, 4096}}
        \cup {Dump(FullRequest(S("echo"), SmallPayload)),
              Dump(FullRequest(S("echo"), LongPayload))}

\* the peer writes its message (and, on a stream, leaves it at that)
PeerWrite(text) ==
    /\ got.out = "none"
    /\ wire' = text
    /\ got' = [got EXCEPT !.out = "pending"]
    /\ UNCHANGED role
    /\ UNCHANGED <<poolVars, srvVars, cliVars, trVars, valVars, udpVars, tdVars, reuseVars, pathVars>>

\* Transport::receive(client_id) of the three backends
ReceiveAsServer ==
    /\ role = "server"
    /\ got.out = "pending"
    /\ got' = ReceiveStep(backend, role, wire)
    /\ UNCHANGED <<role, wire>>
    /\ UNCHANGED <<poolVars, srvVars, cliVars, trVars, valVars, udpVars, tdVars, reuseVars, pathVars>>

\* the second half of Transport::send(data) of the three backends
ReceiveAsClient ==
    /\ role = "client"
    /\ got.out = "pending"
    /\ got' = ReceiveStep(backend, role, wire)
    /\ UNCHANGED <<role, wire>>
    /\ UNCHANGED <<poolVars, srvVars, cliVars, trVars, valVars, udpVars, tdVars, reuseVars, pathVars>>

\* ------------------------------------------------------ schema validation
\* ParamSchema: one json::value_t, a vector of them (types({...})), or a
\* nested map of key -> ParamSchema
TypeNode(ty) == [kind |-> "type", tys |-> <<ty>>, m |-> NoFields]

types(tys) == [kind |-> "types", tys |-> tys, m |-> NoFields]

MapNode(m) == [kind |-> "map", tys |-> <<>>, m |-> m]

\* std::string full_path = path.empty() ? key : path + "." + key
FullPath(path, key) == IF path = "" THEN key ELSE path \o "." \o key

\* the list of value_t_to_string names, separated by ", "
RECURSIVE ExpectedList(_, _)
ExpectedList(tys, i) ==
    IF i > Len(tys) THEN ""
    ELSE (IF i > 1 THEN ", " ELSE "") \o tys[i] \o ExpectedList(tys, i + 1)

\* json_val.type() == type
type_matches_numbers_alike(have, want) ==
    have = want \/ {have, want} \subseteq NumTypes

type_matches(have, want) == have = want

\* assert_parameters_impl: the failures the loop over the schema can throw.
\* The schema is an unordered_map, so whichever violating key the loop
\* meets first throws; no failure means the call returns
RECURSIVE SchemaErrors(_, _, _)
SchemaErrors(obj, schema, path) ==
    UNION {
      LET full_path == FullPath(path, key)
          node == schema[key]
      IN IF key \notin DOMAIN obj.f THEN {"Missing key: " \o full_path}
         ELSE LET json_val == obj.f[key] IN
              CASE node.kind = "type" ->
                     IF type_matches(json_val.ty, node.tys[1]) THEN {}
                     ELSE {"Wrong type for key '" \o full_path
                           \o "' (expected " \o node.tys[1]
                           \o ", got " \o json_val.ty \o ")"}
                [] node.kind = "types" ->
                     IF \E i \in 1..Len(node.tys) :
                            type_matches(json_val.ty, node.tys[i])
                       THEN {}
                     ELSE {"Wrong type for key '" \o full_path
                           \o "' (expected one of ["
                           \o ExpectedList(node.tys, 1)
                           \o "], got " \o json_val.ty \o ")"}
                [] OTHER ->
                     IF json_val.ty # "object"
                       THEN {"Expected object at key: " \o full_path}
                     ELSE SchemaErrors(json_val, node.m, full_path)
      : key \in DOMAIN schema}

\* assert_parameters(obj, schema): the ways the call can end
assert_parameters(obj, schema) ==
    IF obj.ty # "object"
      THEN {[st |-> "done", ok |-> FALSE,
             what |-> "Top-level JSON must be an object.", reply |-> <<>>]}
    ELSE IF SchemaErrors(obj, schema, "") = {}
      THEN {[st |-> "done", ok |-> TRUE, what |-> "", reply |-> <<>>]}
    ELSE {[st |-> "done", ok |-> FALSE, what |-> w, reply |-> <<>>] :
             w \in SchemaErrors(obj, schema, "")}

NotValidated == [st |-> "none", ok |-> FALSE, what |-> "", reply |-> <<>>]

\* the payloads clients send to a validating handler
Fld(key, v) == [k \in {key} |-> v]

ValPayloads ==
    {JObj(Fld("n", JInt(5))), JObj(Fld("n", JFloat(52))),
     JObj(Fld("n", JStr(S("5")))), JObj(Fld("n", JInt(-5))),
     JObj(Fld("n", JBool(TRUE))), JObj(Fld("n", JUns(5))),
     JObj(Fld("meta", JInt(1))),
     JObj(Fld("meta", JObj(Fld("retries", JInt(3))))),
     JObj(Fld("meta", JObj(Fld("retries", JStr(S("3")))))),
     JObj(Fld("meta", JObj(NoFields))),
     JObj(NoFields),
     JObj([k \in {"n", "meta", "v"} |->
             CASE k = "n" -> JFloat(52)
               [] k = "meta" ->
                    JObj([j \in {"retries", "v"} |->
                            IF j = "retries" THEN JInt(3) ELSE JStr(S("x"))])
               [] OTHER -> JInt(1)]),
     JObj([k \in {"n", "meta"} |->
             IF k = "n" THEN JStr(S("5"))
             ELSE JObj(Fld("retries", JStr(S("3"))))])}

\* the values a program passes to assert_parameters without a wire in
\* between: built in the program, an int literal is a number_integer
DirectDocs ==
    {JDoc(JInt(5)), JDoc(JStr(S("5"))), NullDoc, JObj(Fld("n", JInt(5))),
     JObj(Fld("meta", JObj(Fld("retries", JInt(3))))),
     JObj([k \in {"n", "v"} |-> IF k = "n" THEN JFloat(52) ELSE JNull])}

\* the request as the handler gets it: what json::parse makes of the bytes
\* the client's send_request has written
WireRequest(payload) == Dump(FullRequest(S("check"), payload))

\* the schemas handlers pass
SchemaNumber ==
    Fld("n", types(<<"number_integer", "number_float">>))

SchemaNested ==
    Fld("meta", MapNode(Fld("retries", TypeNode("number_integer"))))

SchemaFibo ==
    Fld("n", types(<<"number_integer", "number_unsigned">>))

SchemaUnsigned == Fld("n", TypeNode("number_unsigned"))

SchemaBoth ==
    [k \in {"n", "meta"} |->
        IF k = "n" THEN TypeNode("number_float")
        ELSE MapNode(Fld("retries", TypeNode("number_unsigned")))]

Schemas ==
    {SchemaNumber, SchemaNested, SchemaFibo, SchemaUnsigned, SchemaBoth}

\* the handler parses nothing itself: serve() has parsed the received bytes
\* and passes the request object; the handler calls assert_parameters
ValidateRequest ==
    /\ vout.st = "none"
    /\ vtext # <<>>
    /\ LET p == Parse(ReadBuffer(vtext)) IN
       /\ p.ok
       /\ vdoc' = p.doc
       /\ \E o \in assert_parameters(p.doc, vschema) : vout' = o
    /\ UNCHANGED <<vtext, vschema>>
    /\ UNCHANGED <<poolVars, srvVars, cliVars, trVars, udpVars, moreVars>>

\* assert_parameters called on a value the program has built itself
ValidateDirect ==
    /\ vout.st = "none"
    /\ vtext = <<>>
    /\ \E o \in assert_parameters(vdoc, vschema) : vout' = o
    /\ UNCHANGED <<vtext, vschema, vdoc>>
    /\ UNCHANGED <<poolVars, srvVars, cliVars, trVars, udpVars, moreVars>>

\* the handler's answer: okay(...) after a passed validation, and
\* error({}, e.what()) from its catch of std::exception
ValidateReply ==
    /\ vout.st = "done"
    /\ vout' = [vout EXCEPT
                   !.st = "replied",
                   !.reply = Dump(IF vout.ok THEN okay(JObj(Fld("v", JInt(1))))
                                  ELSE error(NullDoc, S(vout.what)))]
    /\ UNCHANGED <<vtext, vschema, vdoc>>
    /\ UNCHANGED <<poolVars, srvVars, cliVars, trVars, udpVars, moreVars>>

\* ----------------------------------------------------------- specifications
PoolNext == PoolStep

\* a pool used on its own: no server is constructed
NoServer ==
    /\ usePool = FALSE
    /\ handlers_ = [c \in {} |-> "none"]
    /\ running_ = FALSE
    /\ spc = "init"
    /\ sid = 0
    /\ srvDown = FALSE
    /\ netq = <<>>
    /\ msg = [k \in TaskIds |-> NoMsg]
    /\ nextConn = 1
    /\ clpc = "idle"
    /\ clconn = 0
    /\ tropen = FALSE
    /\ rcvErrors = 0
    /\ stpc = "idle"

\* no Client is in use
NoClient ==
    /\ mutex_ = 0
    /\ cth = [t \in Callers |-> NoCaller]
    /\ terminated = FALSE

\* no Transport object is looked at on its own
NoTransport ==
    /\ backend = "unix"
    /\ server_fd_ = NoFd
    /\ fdt = [fd \in Fds |-> "free"]
    /\ path_ = "absent"
    /\ peers = {}
    /\ handed = {}
    /\ lastop = NoOp
    /\ killed = FALSE

\* no request is being validated
NoValidation ==
    /\ vtext = <<>>
    /\ vschema = NoFields
    /\ vdoc = NullDoc
    /\ vout = NotValidated

\* no datagram is under way
NoUdp ==
    /\ client_addr = ZeroAddr
    /\ client_id = ""
    /\ dest_addr = NoSockaddr

\* no single message is followed through a receive step
NoReceive ==
    /\ role = "server"
    /\ wire = <<>>
    /\ got = NotReceived

\* no connection is followed through the descriptors
NoReuse ==
    /\ conn_at = [fd \in Fds |-> 0]
    /\ held = [t \in TaskIds |-> NoHeld]
    /\ wrote = [t \in TaskIds |-> 0]

\* no unix transport shares a path with another
NoPath ==
    /\ inst_fd = [i \in Insts |-> NoFd]
    /\ path_sock = 0
    /\ listening = {}
    /\ next_sock = 1
    /\ reached = [p \in UnixPeers |-> NotTried]

NoMore == NoReceive /\ client_alive = TRUE /\ NoReuse /\ NoPath

PoolOnlyInit ==
    PoolInit /\ NoServer /\ NoClient /\ NoTransport /\ NoValidation /\ NoUdp
    /\ NoMore

PoolSpec == PoolOnlyInit /\ [][PoolNext]_vars

\* threads that are runnable keep running; nobody is obliged to call
\* enqueue, wait or terminate, and a spurious wake-up need not happen
PoolFairness ==
    /\ \A w \in Workers : WF_vars(WorkerLock(w))
    /\ \A w \in Workers : WF_vars(WorkerWrapper(w))
    /\ \A w \in Workers : WF_vars(WorkerBodyEnd(w))
    /\ WF_vars(NotifyOne)
    /\ WF_vars(NotifyAll)
    /\ WF_vars(JoinWorker)
    /\ WF_vars(JoinReturn)

PoolFair == PoolSpec /\ PoolFairness

\* a server without a pool: thread_pool_ is null and no worker exists
ServeInit ==
    /\ usePool \in BOOLEAN
    /\ IF usePool THEN PoolInit ELSE (nworkers = 0 /\ PoolMembers)
    /\ ServerInit
    /\ NoClient
    /\ NoTransport
    /\ NoValidation
    /\ NoUdp
    /\ NoMore

ServeNext ==
    \/ ServerStart
    \/ ServerLoop
    \/ ServerReceive
    \/ ServerInline
    \/ ServerEnqueue
    \/ ServerNotify
    \/ ServerHandle
    \/ ServerSend
    \/ \E call \in ClientCalls : ClientSend(call[1], call[2])
    \/ ClientReturn
    \/ \E text \in RawTexts : RawSend(text)
    \/ \E w \in Workers : WorkerHandle(w)
    \/ \E w \in Workers : WorkerSend(w)
    \/ \E w \in Workers : WorkerLock(w)
    \/ \E w \in Workers : SpuriousWake(w)
    \/ \E w \in Workers : WorkerWrapper(w)

ServeSpec == ServeInit /\ [][ServeNext]_vars

\* a server without a pool, its peers, and a thread that calls stop() once
StopInit ==
    /\ usePool = FALSE
    /\ nworkers = 0
    /\ PoolMembers
    /\ ServerInit
    /\ NoClient
    /\ NoTransport
    /\ NoValidation
    /\ NoUdp
    /\ NoMore

StopNext ==
    \/ ServerStart
    \/ ServerLoop
    \/ ServerReceive
    \/ BlockedReceiveFails
    \/ ServerInline
    \/ ServerHandle
    \/ ServerSend
    \/ StopFlag
    \/ StopClose
    \/ \E call \in ClientCalls : ClientSend(call[1], call[2])
    \/ ClientReturn
    \/ \E text \in RawTexts : RawSend(text)

StopSpec == StopInit /\ [][StopNext]_vars

\* the serving thread and the thread inside stop() keep running when they
\* can; a receive() that is blocked when its descriptor is closed is not
\* obliged to fail, and no peer is obliged to send
StopFairness ==
    /\ WF_vars(ServerLoop)
    /\ WF_vars(ServerReceive)
    /\ WF_vars(ServerInline)
    /\ WF_vars(ServerHandle)
    /\ WF_vars(ServerSend)
    /\ WF_vars(StopClose)

StopFair == StopSpec /\ StopFairness

\* a server without a pool on which start() and stop() are called in any
\* order: stop() before start(), stop() while serving, start() once more
RestartNext ==
    \/ ServerStart
    \/ ServerStartAgain
    \/ ServerLoop
    \/ ServerReceive
    \/ BlockedReceiveFails
    \/ ServerInline
    \/ ServerHandle
    \/ ServerSend
    \/ StopFlag
    \/ StopFlagEarly
    \/ StopClose
    \/ \E text \in RawTexts : RawSend(text)

RestartSpec == StopInit /\ [][RestartNext]_vars

\* one Client, the threads that call it, and a peer that answers anything
ClientInit ==
    /\ nworkers = 0
    /\ PoolMembers
    /\ NoServer
    /\ NoClient
    /\ NoTransport
    /\ NoValidation
    /\ NoUdp
    /\ NoMore

ClientNext ==
    \/ \E t \in Callers : \E call \in CallerCalls : CallerCall(t, call)
    \/ \E t \in Callers : CallerSend(t)
    \/ \E t \in Callers : \E text \in ReplyTexts : CallerReturn(t, text)
    \/ \E t \in Callers : CallbackTry(t)
    \/ \E t \in Callers : CallbackCatch(t)

ClientSpec == ClientInit /\ [][ClientNext]_vars

\* one Client, the threads that use it, and the owner that destroys it
TeardownNext ==
    \/ \E t \in Callers : \E call \in CallerCalls : CallerCall(t, call)
    \/ \E t \in Callers : CallerSend(t)
    \/ \E t \in Callers : \E text \in ReplyTexts : CallerReturn(t, text)
    \/ \E t \in Callers : CallbackTry(t)
    \/ \E t \in Callers : CallbackCatch(t)
    \/ ClientDestroy
    \/ \E t \in Callers : DanglingUse(t)

TeardownSpec == ClientInit /\ [][TeardownNext]_vars

\* one Transport object of any backend in its server role, with the calls
\* an owner may make on it in any order
TransportInit ==
    /\ nworkers = 0
    /\ PoolMembers
    /\ NoServer
    /\ NoClient
    /\ NoValidation
    /\ NoUdp
    /\ NoMore
    /\ backend \in {"unix", "udp", "tcp"}
    /\ server_fd_ = NoFd
    /\ fdt = [fd \in Fds |-> "free"]
    /\ path_ \in {"absent", "other"}
    /\ peers = PeerPorts
    /\ handed = {}
    /\ lastop = NoOp
    /\ killed = FALSE

TransportNext ==
    \/ \E ok \in BOOLEAN : TransportBind(ok)
    \/ TransportReceive
    \/ TransportReceiveFails
    \/ PeerGone
    \/ \E id \in Identities : \E sigpipe \in BOOLEAN :
          TransportSendTo(id, sigpipe)
    \/ TransportClose

TransportSpec == TransportInit /\ [][TransportNext]_vars

\* a server without a pool started on one backend, peers that come and
\* go, and a thread that calls stop() once
LoopInit ==
    /\ nworkers = 0
    /\ PoolMembers
    /\ NoServer
    /\ NoClient
    /\ NoValidation
    /\ NoUdp
    /\ NoMore
    /\ backend \in {"unix", "udp", "tcp"}
    /\ server_fd_ = NoFd
    /\ fdt = [fd \in Fds |-> "free"]
    /\ path_ \in {"absent", "other"}
    /\ peers = PeerPorts
    /\ handed = {}
    /\ lastop = NoOp
    /\ killed = FALSE

LoopNext ==
    \/ ServeStart
    \/ ServerLoop
    \/ ServeReceive
    \/ ServeReceiveFails
    \/ \E sigpipe \in BOOLEAN : ServeSend(sigpipe)
    \/ PeerGone
    \/ StopFlag
    \/ ServeStopClose

LoopSpec == LoopInit /\ [][LoopNext]_vars

\* a server with a pool started on a stream backend; peers connect one after
\* the other and wait for their replies
ReuseInit ==
    /\ usePool = TRUE
    /\ PoolInit
    /\ handlers_ = [c \in {"echo"} |-> "echo"]
    /\ running_ = FALSE
    /\ spc = "init"
    /\ sid = 0
    /\ srvDown = FALSE
    /\ netq = <<>>
    /\ msg = [k \in TaskIds |-> NoMsg]
    /\ nextConn = 1
    /\ clpc = "idle"
    /\ clconn = 0
    /\ tropen = FALSE
    /\ rcvErrors = 0
    /\ stpc = "idle"
    /\ NoClient
    /\ NoValidation
    /\ NoUdp
    /\ NoMore
    /\ backend \in {"unix", "tcp"}
    /\ server_fd_ = NoFd
    /\ fdt = [fd \in Fds |-> "free"]
    /\ path_ = "absent"
    /\ peers = {}
    /\ handed = {}
    /\ lastop = NoOp
    /\ killed = FALSE

ReuseNext ==
    \/ ServeStart
    \/ ServerLoop
    \/ PoolReceive
    \/ ServeReceiveFails
    \/ PoolEnqueue
    \/ ServerNotify
    \/ \E w \in Workers : WorkerLock(w)
    \/ \E w \in Workers : SpuriousWake(w)
    \/ \E w \in Workers : WorkerWrapper(w)
    \/ \E w \in Workers : WorkerWrite(w)
    \/ \E w \in Workers : WorkerClose(w)

ReuseSpec == ReuseInit /\ [][ReuseNext]_vars

\* two unix transports on one path, bound and closed in any order, with
\* peers connecting in between; everything else idle
UnixPathInit ==
    /\ nworkers = 0
    /\ PoolMembers
    /\ NoServer
    /\ NoClient
    /\ NoValidation
    /\ NoUdp
    /\ NoMore
    /\ backend = "unix"
    /\ server_fd_ = NoFd
    /\ fdt = [fd \in Fds |-> "free"]
    /\ path_ = "absent"
    /\ peers = {}
    /\ handed = {}
    /\ lastop = NoOp
    /\ killed = FALSE

UnixPathNext ==
    \/ \E i \in Insts : UnixBind(i)
    \/ \E i \in Insts : UnixClose(i)
    \/ \E p \in UnixPeers : UnixConnect(p)

UnixPathSpec == UnixPathInit /\ [][UnixPathNext]_vars

\* one request from the wire, one schema, one call of assert_parameters
ValidateInit ==
    /\ nworkers = 0
    /\ PoolMembers
    /\ NoServer
    /\ NoClient
    /\ NoTransport
    /\ vtext \in {WireRequest(pl) : pl \in ValPayloads} \cup {<<>>}
    /\ vdoc \in IF vtext = <<>> THEN DirectDocs ELSE {NullDoc}
    /\ vschema \in Schemas
    /\ vout = NotValidated
    /\ NoUdp
    /\ NoMore

ValidateNext ==
    \/ ValidateRequest
    \/ ValidateDirect
    \/ ValidateReply

ValidateSpec == ValidateInit /\ [][ValidateNext]_vars

\* one datagram from some sender: receive() writes the identity, the
\* reply is sent with it
IdentityInit ==
    /\ nworkers = 0
    /\ PoolMembers
    /\ NoServer
    /\ NoClient
    /\ NoTransport
    /\ vtext = <<>>
    /\ vschema = NoFields
    /\ vdoc = NullDoc
    /\ vout = NotValidated
    /\ client_addr \in SourceAddrs
    /\ client_id = ""
    /\ dest_addr = NoSockaddr
    /\ NoMore

IdentityNext ==
    \/ UdpReceive
    \/ UdpSend

IdentitySpec == IdentityInit /\ [][IdentityNext]_vars

\* one message written by a peer and taken by the receive step, on each
\* backend and in each role
ReceiveInit ==
    /\ nworkers = 0
    /\ PoolMembers
    /\ NoServer
    /\ NoClient
    /\ NoValidation
    /\ NoUdp
    /\ backend \in {"unix", "udp", "tcp"}
    /\ server_fd_ = NoFd
    /\ fdt = [fd \in Fds |-> "free"]
    /\ path_ = "absent"
    /\ peers = {}
    /\ handed = {}
    /\ lastop = NoOp
    /\ killed = FALSE
    /\ role \in {"server", "client"}
    /\ wire = <<>>
    /\ got = NotReceived
    /\ client_alive = TRUE
    /\ NoReuse
    /\ NoPath

ReceiveNext ==
    \/ \E text \in WireTexts : PeerWrite(text)
    \/ ReceiveAsServer
    \/ ReceiveAsClient

ReceiveSpec == ReceiveInit /\ [][ReceiveNext]_vars

\* a server whose pool is shared with the code that made it: while the
\* server runs, the pool's owner may call wait() or terminate() on it
\* what the peers send here: bytes that are no JSON, and the empty object
PoolWires == {<<[tk |-> "junk", n |-> 0, str |-> S("hello")]>>,
              Dump(JObj(NoFields))}

SharedPoolInit ==
    /\ usePool = TRUE
    /\ PoolInit
    /\ handlers_ = [c \in {"echo"} |-> "echo"]
    /\ running_ = FALSE
    /\ spc = "init"
    /\ sid = 0
    /\ srvDown = FALSE
    /\ netq = <<>>
    /\ msg = [k \in TaskIds |-> NoMsg]
    /\ nextConn = 1
    /\ clpc = "idle"
    /\ clconn = 0
    /\ tropen = FALSE
    /\ rcvErrors = 0
    /\ stpc = "idle"
    /\ NoClient
    /\ NoTransport
    /\ NoValidation
    /\ NoUdp
    /\ NoMore

SharedPoolNext ==
    \/ ServerStart
    \/ ServerLoop
    \/ ServerReceive
    \/ ServerEnqueue
    \/ ServerNotify
    \/ \E text \in PoolWires : RawSend(text)
    \/ \E w \in Workers : WorkerHandle(w)
    \/ \E w \in Workers : WorkerSend(w)
    \/ \E w \in Workers : WorkerLock(w)
    \/ \E w \in Workers : SpuriousWake(w)
    \/ \E w \in Workers : WorkerWrapper(w)
    \/ CallWait("wait")
    \/ CallTerminate
    \/ NotifyAll
    \/ JoinWorker
    \/ JoinReturn

SharedPoolSpec == SharedPoolInit /\ [][SharedPoolNext]_vars

\* every thread that can take a step keeps running; no peer is obliged to
\* send and the owner is not obliged to call wait() or terminate()
SharedPoolFairness ==
    /\ WF_vars(ServerStart)
    /\ WF_vars(ServerLoop)
    /\ WF_vars(ServerReceive)
    /\ WF_vars(ServerEnqueue)
    /\ WF_vars(ServerNotify)
    /\ \A w \in Workers : WF_vars(WorkerHandle(w))
    /\ \A w \in Workers : WF_vars(WorkerSend(w))
    /\ PoolFairness

SharedPoolFair == SharedPoolSpec /\ SharedPoolFairness

\* a pool that is only given work: nobody calls wait() or terminate(), and
\* the pool is not destroyed
RunNext ==
    \/ \E w \in Workers : WorkerLock(w)
    \/ \E w \in Workers : SpuriousWake(w)
    \/ \E w \in Workers : WorkerWrapper(w)
    \/ \E w \in Workers : WorkerBodyEnd(w)
    \/ \E kind \in {"plain", "async"}, fails \in BOOLEAN : Enqueue(kind, fails)
    \/ NotifyOne

RunSpec == PoolOnlyInit /\ [][RunNext]_vars

\* the workers and the thread inside enqueue() keep running, and every task
\* body ends; a spurious wake-up need not happen and nobody has to enqueue
RunFairness ==
    /\ \A w \in Workers : WF_vars(WorkerLock(w))
    /\ \A w \in Workers : WF_vars(WorkerWrapper(w))
    /\ \A w \in Workers : WF_vars(WorkerBodyEnd(w))
    /\ WF_vars(NotifyOne)

RunFair == RunSpec /\ RunFairness

\* ---------------------------------------------------------- server claims
Msgs == TaskIds

\* the first try block of the task has run for message k
TaskRan(k) == msg[k].st \in {"handled", "replied", "failed"}

IsFailureEnvelope(doc) ==
    /\ doc.ty = "object"
    /\ "_success" \in DOMAIN doc.f
    /\ doc.f["_success"] = JBool(FALSE)
    /\ "_msg" \in DOMAIN doc.f
    /\ doc.f["_msg"].ty = "string"

FitsBuffer(text) == TextBytes(text) <= BufferSize - 1

\* C7: when a registered handler raises a failure, the response is a failure
\* envelope whose _msg carries the failure's message, nothing leaves the
\* serve loop and no thread dies, with and without a pool.
C7_HandlerFailureContained ==
    \A k \in Msgs :
        (TaskRan(k) /\ msg[k].call.out \in {"throws_std", "throws_other"})
            => /\ ~srvDown /\ ~crashed /\ spc # "down"
               /\ msg[k].st \in {"handled", "replied"}
               /\ IsFailureEnvelope(msg[k].resp)
               /\ msg[k].resp.f["_msg"].str =
                      StrCat(S("Invalid JSON or internal error: "),
                             msg[k].call.what)

\* C8: a message that is no valid JSON, or valid JSON without a _cmd field,
\* gets a failure envelope and no handler is invoked, whatever the registry.
LacksCmd(text) ==
    \/ text = <<>>
    \/ text[1].tk # "{"
    \/ text[Len(text)].tk # "}"
    \/ \A i \in 1..Len(text) : ~(text[i].tk = "key" /\ text[i].str = S("_cmd"))

C8_NoCmdNoHandler ==
    \A k \in Msgs :
        (TaskRan(k) /\ LacksCmd(msg[k].rdata))
            => (msg[k].invoked = 0 /\ IsFailureEnvelope(msg[k].resp))

\* C9: a request whose _cmd names no registered handler invokes no handler,
\* is answered {"_success":false,"_msg":"Unknown command: <name>"}, and the
\* client's send_request fails with an error carrying that message.
UnregisteredCall(k) ==
    /\ msg[k].from = "client"
    /\ ~(msg[k].cmd.pad = 0 /\ msg[k].cmd.s \in DOMAIN handlers_)

UnknownReply(k) ==
    JObj([f \in {"_success", "_msg"} |->
             IF f = "_success" THEN JBool(FALSE)
             ELSE JStr(StrCat(S("Unknown command: "), msg[k].cmd))])

C9_UnknownOutcome(k) ==
    /\ TaskRan(k) => (msg[k].invoked = 0 /\ msg[k].resp = UnknownReply(k))
    /\ msg[k].res # "none"
          => /\ msg[k].res = "threw"
             /\ msg[k].what =
                    StrCat(S("Request failed: Unknown command: "), msg[k].cmd)

C9_UnknownCommand_Original ==
    \A k \in Msgs : UnregisteredCall(k) => C9_UnknownOutcome(k)

\* C9 as amended: the same, for requests and replies of at most 2047 bytes.
C9_UnknownCommand ==
    \A k \in Msgs :
        (/\ UnregisteredCall(k)
         /\ FitsBuffer(msg[k].req)
         /\ FitsBuffer(Dump(UnknownReply(k))))
            => C9_UnknownOutcome(k)

C9_Witness ==
    \E k \in Msgs :
        /\ UnregisteredCall(k)
        /\ msg[k].cmd = S("nope")
        /\ msg[k].res = "threw"
        /\ msg[k].what = S("Request failed: Unknown command: nope")
        /\ msg[k].reply = Dump(UnknownReply(k))

\* C10: with a handler registered under c that returns a success envelope,
\* send_request(c, p) invokes it exactly once with p plus _cmd:c and returns
\* exactly the envelope it returned.
SuccessCall(k) ==
    /\ msg[k].from = "client"
    /\ msg[k].cmd.pad = 0
    /\ msg[k].cmd.s \in DOMAIN handlers_
    /\ handlers_[msg[k].cmd.s] = "echo"

EchoEnvelope(k) ==
    JObj([f \in {"_success", "v"} |->
             IF f = "_success" THEN JBool(TRUE) ELSE msg[k].payload.f["v"]])

SentRequest(k) ==
    JObj([f \in DOMAIN msg[k].payload.f \cup {"_cmd"} |->
             IF f = "_cmd" THEN JStr(msg[k].cmd) ELSE msg[k].payload.f[f]])

C10_RoundTripOutcome(k) ==
    /\ msg[k].res = "returned"
    /\ msg[k].invoked = 1
    /\ msg[k].hname = msg[k].cmd.s
    /\ JsonEq(msg[k].hreq, SentRequest(k))
    /\ msg[k].call.out = "returns"
    /\ JsonEq(msg[k].call.doc, EchoEnvelope(k))
    /\ JsonEq(msg[k].ret, msg[k].call.doc)

C10_RoundTrip_Original ==
    \A k \in Msgs :
        (SuccessCall(k) /\ msg[k].res # "none") => C10_RoundTripOutcome(k)

\* C10 as amended: the same, for requests and replies of at most 2047 bytes.
C10_RoundTrip ==
    \A k \in Msgs :
        (/\ SuccessCall(k)
         /\ msg[k].res # "none"
         /\ FitsBuffer(Dump(SentRequest(k)))
         /\ FitsBuffer(Dump(EchoEnvelope(k))))
            => C10_RoundTripOutcome(k)

C10_Witness ==
    \E k \in Msgs :
        /\ SuccessCall(k)
        /\ msg[k].payload = SmallPayload
        /\ msg[k].res = "returned"
        /\ msg[k].invoked = 1
        /\ msg[k].ret = JObj([f \in {"_success", "v"} |->
                                 IF f = "_success" THEN JBool(TRUE) ELSE JUns(7)])

\* the two response shapes of the wire format, and no _cmd
ResponseShape(doc) ==
    /\ doc.ty = "object"
    /\ "_cmd" \notin DOMAIN doc.f
    /\ "_success" \in DOMAIN doc.f
    /\ doc.f["_success"].ty = "boolean"
    /\ doc.f["_success"].n = 0 =>
          ("_msg" \in DOMAIN doc.f /\ doc.f["_msg"].ty = "string")

\* C11: every response the server hands to the transport is an object with
\* _success true, or with _success false and a _msg, and has no _cmd,
\* whatever envelope the registered handler returned
C11_ResponseShape ==
    \A k \in Msgs :
        msg[k].sent > 0 => ResponseShape(Parse(msg[k].reply).doc)

\* C12: once stop() has returned on a serving server, running_ is false, the
\* transport is closed, and the serve loop eventually returns (start()
\* returns, or has been left by a failure)
C12_StopEndsServing ==
    (stpc = "done") ~>
        (/\ ~running_
         /\ ~tropen
         /\ spc \in {"returned", "down"})

\* ---------------------------------------------------------- client claims
\* the calling threads whose round trip has ended
TripEnded(t) == cth[t].pc \notin {"idle", "lock", "trip"}

\* a reply that is an envelope: a JSON object whose _msg, if any, is a string
ReplyEnvelope(doc) ==
    /\ doc.ty = "object"
    /\ "_msg" \in DOMAIN doc.f => doc.f["_msg"].ty = "string"

FlagTrue(doc) ==
    /\ doc.ty = "object"
    /\ "_success" \in DOMAIN doc.f
    /\ doc.f["_success"] = JBool(TRUE)

FlagFalseOrAbsent(doc) ==
    /\ doc.ty = "object"
    /\ "_success" \in DOMAIN doc.f => doc.f["_success"] = JBool(FALSE)

RemoteErrorText(doc) ==
    StrCat(S("Request failed: "),
           IF "_msg" \in DOMAIN doc.f THEN doc.f["_msg"].str
           ELSE S("Unknown server error."))

\* C13: send_request returns the reply exactly when the reply's _success is
\* true; a reply envelope whose flag is false or absent makes it fail with
\* an error carrying the reply's _msg, or the default message without _msg
C13_ReturnsIffSuccess ==
    \A t \in Callers :
        TripEnded(t) =>
            LET p == Parse(ReadBuffer(cth[t].reply)) IN
            /\ (cth[t].res = "returned") <=> (p.ok /\ FlagTrue(p.doc))
            /\ cth[t].res = "returned" => cth[t].ret = p.doc
            /\ (p.ok /\ ReplyEnvelope(p.doc) /\ FlagFalseOrAbsent(p.doc)) =>
                   /\ cth[t].res = "threw"
                   /\ cth[t].pc \in {"done", "cb_catch"} =>
                          cth[t].what = RemoteErrorText(p.doc)

C13_Witness ==
    \E t, u \in Callers :
        /\ TripEnded(t) /\ cth[t].res = "returned"
        /\ TripEnded(u) /\ cth[u].res = "threw"
        /\ cth[u].what = S("Request failed: Unknown server error.")

\* C14: when a send_request_bg call is over, its callback has been invoked
\* exactly once, with the reply when the request succeeded and with the
\* synthesized failure envelope when it failed
C14_CallbackOnce ==
    \A t \in Callers :
        (cth[t].mode = "bg" /\ cth[t].pc \in {"done", "dead"}) =>
            /\ Len(cth[t].cbargs) = 1
            /\ cth[t].cbargs[1] = IF cth[t].res = "returned" THEN cth[t].ret
                                   ELSE BgFailure(cth[t].what)

\* C15: a failure raised by the callback of send_request_bg never leaves
\* the background thread, so the process is never terminated by it
C15_CallbackFailureContained ==
    /\ ~terminated
    /\ \A t \in Callers : cth[t].pc # "dead"

\* C16: at most one thread is inside the transport's round trip, it is the
\* one that holds the client's lock, and the lock is held by nobody else
C16_OneRoundTrip ==
    /\ Cardinality({t \in Callers : cth[t].pc = "trip"}) <= 1
    /\ \A t \in Callers : (cth[t].pc = "trip") <=> (mutex_ = t)

C16_Witness ==
    \E t, u \in Callers :
        /\ t # u
        /\ cth[t].res = "threw"
        /\ cth[t].mode # cth[u].mode
        /\ cth[u].pc = "trip"

\* C17: the request handed to the transport carries _cmd equal to the
\* endpoint, also when the payload had a _cmd, and every other field of the
\* payload with its value, and nothing else
C17_RequestCarriesCmd ==
    \A t \in Callers :
        cth[t].wire # <<>> =>
            LET d == Parse(cth[t].wire).doc
                pl == cth[t].payload
            IN /\ d.ty = "object"
               /\ DOMAIN d.f = DOMAIN pl.f \cup {"_cmd"}
               /\ d.f["_cmd"] = JStr(cth[t].cmd)
               /\ \A k \in DOMAIN pl.f \ {"_cmd"} : ScalarEq(d.f[k], pl.f[k])

C17_Witness ==
    \E t \in Callers :
        /\ cth[t].wire # <<>>
        /\ "_cmd" \in DOMAIN cth[t].payload.f
        /\ cth[t].payload.f["_cmd"] # JStr(cth[t].cmd)

\* ------------------------------------------------------- transport claims
\* an identity the backend's receive() never returns
Malformed(b, id) == IF b = "udp" THEN id.form # "addr" ELSE id.form # "fd"

\* an identity of the backend's form whose connection or peer is not there
Stale(b, id, t, ps) ==
    IF b = "udp" THEN id.form = "addr" /\ id.n \notin ps
    ELSE id.form = "fd" /\ t[id.n] # "conn"

\* C18: on every backend a send to a malformed identity, or to a stale one,
\* ends in a failure thrown to the caller
C18_BadIdentityFails ==
    (/\ lastop.op = "send"
     /\ \/ Malformed(backend, lastop.id)
        \/ Stale(backend, lastop.id, lastop.fdt0, lastop.peers0))
    => lastop.out = "threw"

\* C19: after close() the transport has no descriptor (server_fd_ is -1 and
\* its socket is released), on the Unix-domain backend the path it bound is
\* gone, no descriptor was released that was already free, and a close() on
\* a closed transport releases nothing and changes nothing
C19_CloseIdempotent ==
    lastop.op = "close" =>
        /\ server_fd_ = -1
        /\ \A fd \in Fds : fdt[fd] \notin {"sock", "own"}
        /\ backend = "unix" => path_ # "bound"
        /\ ~lastop.double
        /\ lastop.fd0 = -1 =>
              /\ lastop.rel = 0
              /\ fdt = lastop.fdt0
              /\ path_ = lastop.path0

C19_Witness ==
    /\ lastop.op = "close"
    /\ lastop.fd0 = -1
    /\ backend = "unix"
    /\ lastop.path0 = "absent"
    /\ handed # {}

\* ------------------------------------------------------ validation claims
Validated(payload, schema) ==
    /\ vout.st # "none"
    /\ vtext = WireRequest(payload)
    /\ vschema = schema

\* C20: for requests as they come from the wire, {"n": oneOf(int, float)}
\* accepts {"n":5} and {"n":5.2} and rejects {"n":"5"} with a type mismatch
\* naming "n"; {"meta": {"retries": int}} rejects {"meta":1} and accepts
\* {"meta":{"retries":3}}
C20_SchemaExamples ==
    /\ Validated(JObj(Fld("n", JInt(5))), SchemaNumber) => vout.ok
    /\ Validated(JObj(Fld("n", JFloat(52))), SchemaNumber) => vout.ok
    /\ Validated(JObj(Fld("n", JStr(S("5")))), SchemaNumber) =>
          /\ ~vout.ok
          /\ vout.what = "Wrong type for key 'n' (expected one of "
                          \o "[number_integer, number_float], got string)"
    /\ Validated(JObj(Fld("meta", JInt(1))), SchemaNested) =>
          /\ ~vout.ok
          /\ vout.what = "Expected object at key: meta"
    /\ Validated(JObj(Fld("meta", JObj(Fld("retries", JInt(3))))),
                 SchemaNested) => vout.ok

\* what the documentation of assert_parameters requires of a value
RECURSIVE Satisfies(_, _)
Satisfies(obj, schema) ==
    /\ obj.ty = "object"
    /\ \A key \in DOMAIN schema :
          /\ key \in DOMAIN obj.f
          /\ CASE schema[key].kind = "type" ->
                     obj.f[key].ty = schema[key].tys[1]
                [] schema[key].kind = "types" ->
                     \E i \in 1..Len(schema[key].tys) :
                         obj.f[key].ty = schema[key].tys[i]
                [] OTHER -> Satisfies(obj.f[key], schema[key].m)

\* the dotted paths of the keys at which an object departs from a schema
RECURSIVE ViolatingPaths(_, _, _)
ViolatingPaths(obj, schema, path) ==
    UNION {
      LET here == IF path = "" THEN key ELSE path \o "." \o key IN
      IF key \notin DOMAIN obj.f THEN {here}
      ELSE CASE schema[key].kind = "type" ->
                  IF obj.f[key].ty = schema[key].tys[1] THEN {} ELSE {here}
             [] schema[key].kind = "types" ->
                  IF \E i \in 1..Len(schema[key].tys) :
                         obj.f[key].ty = schema[key].tys[i]
                    THEN {} ELSE {here}
             [] OTHER ->
                  IF obj.f[key].ty # "object" THEN {here}
                  ELSE ViolatingPaths(obj.f[key], schema[key].m, here)
      : key \in DOMAIN schema}

StartsWith(s, p) == Len(p) <= Len(s) /\ SubSeq(s, 1, Len(p)) = p

After(s, p) == SubSeq(s, Len(p) + 1, Len(s))

RECURSIVE UpToQuote(_, _)
UpToQuote(s, i) ==
    IF i > Len(s) \/ SubSeq(s, i, i) = "'" THEN ""
    ELSE SubSeq(s, i, i) \o UpToQuote(s, i + 1)

\* the key path a reader finds in an error text
ErrorPath(what) ==
    IF StartsWith(what, "Missing key: ") THEN After(what, "Missing key: ")
    ELSE IF StartsWith(what, "Expected object at key: ")
      THEN After(what, "Expected object at key: ")
    ELSE IF StartsWith(what, "Wrong type for key '")
      THEN UpToQuote(what, Len("Wrong type for key '") + 1)
    ELSE ""

C22_ClosedForGood ==
    [][/\ stop_ => stop_'
       /\ terminate_now_ => terminate_now_'
       /\ \A w \in Workers :
             wpc[w] \in {"absent", "exited"} => wpc'[w] = wpc[w]
       /\ (stop_ \/ terminate_now_) =>
             /\ accepted' = accepted
             /\ \A t \in TaskIds :
                   (\E i \in 1..Len(tasks_') : tasks_'[i] = t) =>
                       (\E i \in 1..Len(tasks_) : tasks_[i] = t)]_vars

\* after wait() and terminate() have both returned an enqueue was refused,
\* with every worker gone
C22_Witness ==
    /\ stop_
    /\ terminate_now_
    /\ {"wait", "terminate"} \subseteq returnedOps
    /\ rejected # {}
    /\ accepted # {}
    /\ \A w \in Workers : wpc[w] \in {"absent", "exited"}

\* the tasks a worker had already taken from the queue when terminate()
\* set its flag: accepted (no task is accepted later) and not queued then
DequeuedAtTerm == accepted \ beforeTerm

\* C23 as stated: a task already dequeued when terminate() sets the flag
\* is never abandoned
C23_DequeuedNeverSkipped ==
    terminate_now_ => \A t \in DequeuedAtTerm : t \notin skipped

\* C23: a task whose body has started when terminate() sets the flag runs
\* to its end; a task is abandoned only if its body never started, and a
\* task already dequeued then either runs to its end or is abandoned by
\* its wrapper's check of the flag
C23_StartedRunsToEnd ==
    /\ [](\A t \in TaskIds : t \in skipped => started[t] = 0)
    /\ terminate_now_ ~>
          \A t \in TaskIds :
              /\ finished[t] = started[t]
              /\ t \in DequeuedAtTerm =>
                    (t \in skipped \/ (started[t] = 1 /\ finished[t] = 1))

\* with the flag set one body is running and a task that was dequeued
\* before the flag has been abandoned
C23_Witness ==
    /\ terminate_now_
    /\ \E w \in Workers : wpc[w] = "body" /\ wtask[w] \in DequeuedAtTerm
    /\ \E t \in DequeuedAtTerm : t \in skipped

\* C24: no body is started by a wrapper whose check sees the termination
\* flag set; once terminate() has returned no body is started at all, so
\* a task left in the queue never runs; and a running body leaves its
\* worker only by ending, whatever terminate() does meanwhile
C24_NoStartAfterTerminate ==
    [][/\ \A t \in TaskIds :
             started'[t] # started[t] => ~terminate_now_
       /\ "terminate" \in returnedOps =>
             /\ started' = started
             /\ \A i \in 1..Len(tasks_) : started[tasks_[i]] = 0
       /\ \A w \in Workers :
             (wpc[w] = "body" /\ wpc'[w] # "body") =>
                 /\ finished'[wtask[w]] = finished[wtask[w]] + 1
                 /\ wpc'[w] = "lock"]_vars

\* terminate() has returned with a task left in the queue, and another
\* task was abandoned by its wrapper
C24_Witness ==
    /\ "terminate" \in returnedOps
    /\ tasks_ # <<>>
    /\ skipped # {}

\* C25: a worker is suspended on the condition only while the queue is
\* empty and no shutdown flag is set: a worker that is suspended while a
\* task is queued or a flag is set does not stay suspended
C25_SuspendedOnlyWhenIdle ==
    \A w \in Workers :
        (wpc[w] = "suspended" /\ (tasks_ # <<>> \/ stop_ \/ terminate_now_))
            ~> (wpc[w] # "suspended")

\* -------------------------------------------------------- serve loop claims
\* C26: a failing receive() or send() does not end the serve loop: start()
\* has returned, or the serving thread is gone, only after stop() was
\* called
C26_LoopEndsOnlyByStop ==
    spc \in {"returned", "down", "killed"} => stpc # "idle"

\* C27: without a pool the serving thread takes each message through
\* handler and reply before it receives again: a message that is received
\* and not yet answered is the one the serving thread holds, outside
\* receive(), and when a message has been received every earlier arrival
\* has had its reply handed to the transport
C27_InlinePipeline ==
    ~usePool =>
        /\ \A k \in TaskIds :
              msg[k].st \in {"received", "handled"} =>
                  /\ sid = k
                  /\ spc \in {"dispatch", "handle", "send"}
        /\ \A k \in TaskIds :
              msg[k].st \in {"received", "handled", "replied", "failed"} =>
                  \A j \in 1..(k - 1) :
                      msg[j].st = "replied" /\ msg[j].sent = 1

\* two messages were answered one after the other by a server without a
\* pool, and the serving thread is in receive() again
C27_Witness ==
    /\ ~usePool
    /\ spc = "accept"
    /\ \A k \in TaskIds : msg[k].st = "replied" /\ msg[k].invoked = 1

\* C28: on the stream backends a request is read only from a connection
\* receive() has just accepted, and send-to-identity leaves the connection
\* it wrote to closed, whether the write reached the peer or not: no
\* connection stays open after its reply
C28_OneExchangePerConnection ==
    backend \in {"unix", "tcp"} =>
        /\ (lastop.op = "receive" /\ lastop.out = "ok") =>
              /\ lastop.fdt0[lastop.id.n] = "free"
              /\ fdt[lastop.id.n] = "conn"
        /\ (/\ lastop.op = "send"
            /\ lastop.id.form = "fd"
            /\ lastop.id.n \in Fds
            /\ lastop.fdt0[lastop.id.n] \in {"conn", "gone"}) =>
              /\ fdt[lastop.id.n] = "free"
              /\ lastop.out \in {"delivered", "silent", "killed"}
              /\ \A fd \in Fds \ {lastop.id.n} : fdt[fd] = lastop.fdt0[fd]

\* a reply to a connection whose peer had gone was not delivered, and the
\* connection is closed
C28_Witness ==
    /\ backend \in {"unix", "tcp"}
    /\ lastop.op = "send"
    /\ lastop.id.form = "fd"
    /\ lastop.fdt0[lastop.id.n] = "gone"
    /\ lastop.out = "silent"
    /\ fdt[lastop.id.n] = "free"

\* C29: the transport's socket is not used by two threads at once: no
\* thread closes it while the serving thread is inside receive() on it
\* (the last operation on the transport is never a close of the open
\* socket by stop() with the serving thread still in its receive call)
C29_SocketOneThread ==
    ~(/\ spc = "accept"
      /\ stpc = "done"
      /\ lastop.op = "close"
      /\ lastop.fd0 # NoFd
      /\ lastop.fdt0[lastop.fd0] = "own")

\* ------------------------------------------------------- identity claims
\* C30: the identity receive() writes for a datagram is "ip:port" of its
\* source, and send-to-identity with it hands sendto the very address and
\* port the datagram came from
C30_IdentityRoundTrip ==
    /\ client_id # "" =>
          /\ find(client_id, ":", 1) > 1
          /\ find(client_id, ":", 1) < Len(client_id)
    /\ dest_addr.out # "none" =>
          /\ dest_addr.out = "sendto"
          /\ dest_addr.addr.sin_addr = client_addr.sin_addr
          /\ dest_addr.addr.sin_port = client_addr.sin_port

\* the reply to a datagram from 10.168.0.255:40001 went to that address
C30_Witness ==
    /\ client_id = "10.168.0.255:40001"
    /\ dest_addr.out = "sendto"
    /\ dest_addr.addr = [sin_addr |-> <<10, 168, 0, 255>>,
                         sin_port |-> (40001 % 256) * 256 + (40001 \div 256)]

\* the bytes of data are the first bytes of text: whole tokens, then at most
\* one token cut short
IsCutOf(data, text) ==
    /\ Len(data) <= Len(text)
    /\ \A i \in 1..Len(data) :
          \/ data[i] = text[i]
          \/ /\ i = Len(data)
             /\ data[i].tk = "cut"
             /\ TokBytes(data[i]) < TokBytes(text[i])

\* C31 as stated: a message of at most 2048 bytes is returned whole and
\* unchanged, a longer one is returned cut to 2048 bytes, and the receive
\* step raises no error.
C31_ReceiveBound2048 ==
    (got.out \in {"returned", "throws"} /\ TextBytes(wire) >= 1) =>
       /\ got.out = "returned"
       /\ TextBytes(wire) <= BufferSize => got.data = wire
       /\ TextBytes(wire) > BufferSize =>
             TextBytes(got.data) = BufferSize /\ IsCutOf(got.data, wire)

\* C31, amended: on every backend and in both roles the receive step returns
\* a message of 1 to 2047 bytes whole and unchanged, returns the first 2047
\* bytes of a longer one without any error, and fails only on an empty read.
C31_ReceiveBound ==
    got.out \in {"returned", "throws"} =>
       /\ (TextBytes(wire) >= 1 /\ TextBytes(wire) <= BufferSize - 1) =>
             got.out = "returned" /\ got.data = wire
       /\ TextBytes(wire) > BufferSize - 1 =>
             /\ got.out = "returned"
             /\ TextBytes(got.data) = BufferSize - 1
             /\ IsCutOf(got.data, wire)
             /\ got.data # wire
       /\ got.out = "throws" <=> TextBytes(wire) = 0

\* a UDP server has taken a datagram of exactly 2048 bytes and holds its
\* first 2047
C31_Witness ==
    /\ backend = "udp" /\ role = "server" /\ got.out = "returned"
    /\ TextBytes(wire) = BufferSize
    /\ TextBytes(got.data) = BufferSize - 1

\* C32: every message receive() has returned to the serve loop is eventually
\* answered by exactly one send to the identity it came with, also when the
\* pool is stopped or terminated while the server runs.
C32_EveryMessageAnswered ==
    /\ [](\A k \in Msgs : msg[k].sent <= 1)
    /\ \A k \in Msgs : (msg[k].st = "received") ~> (msg[k].sent = 1)

\* C33: in a pool on which neither wait() nor terminate() is called, every
\* task enqueue() accepted is eventually started by a worker: no wake-up is
\* lost between the enqueue and a worker about to suspend.
C33_AcceptedIsStarted ==
    \A t \in TaskIds : (t \in accepted) ~> (started[t] >= 1)

\* an accepted task has been started by one worker of a pool that is neither
\* stopped nor terminated, while every other worker is suspended
C33_Witness ==
    \E t \in TaskIds : \E w \in Workers :
       /\ t \in accepted /\ started[t] = 1 /\ wtask[w] = t
       /\ ~stop_ /\ ~terminate_now_
       /\ \A v \in Workers : Started(v) /\ v # w => wpc[v] = "suspended"

\* C34: once stop() has returned, the server receives no further message,
\* also when start() is called after stop() or runs concurrently with it.
C34_NoReceiveAfterStop ==
    [][stpc = "done" =>
          \A k \in Msgs : msg'[k].st = "received" => msg[k].st = "received"]_vars

\* C35: when ~Client() has closed the transport, no round trip started with
\* send_request_bg or send_request_async is still to use the client, its lock
\* or its transport: each has finished before the client is destroyed.
C35_TeardownAfterRoundTrips ==
    ~client_alive =>
       \A t \in Callers :
          cth[t].mode \in {"bg", "async"} => cth[t].pc \notin {"lock", "trip"}

\* C36: on the stream backends every reply a pool worker writes goes to the
\* connection its request was received on, never to a later connection that
\* was given the same descriptor number.
C36_ReplyOnOwnConnection ==
    \A t \in TaskIds : wrote[t] # 0 => wrote[t] = held[t].conn

\* two connections came in on the same descriptor number, one after the
\* other, and each got the reply to its own request
C36_Witness ==
    \E t, u \in TaskIds :
       /\ held[t].conn # held[u].conn
       /\ held[t].fd = held[u].fd
       /\ wrote[t] = held[t].conn
       /\ wrote[u] = held[u].conn

\* C37: with two unix transports on one path, a bind() or close() of one
\* never makes the other unreachable: an instance that is reachable through
\* the path and does not itself act stays reachable.
C37_OtherStaysReachable ==
    [][\A i \in Insts :
          Reachable(i) /\ inst_fd'[i] = inst_fd[i] => path_sock' = inst_fd[i]
      ]_vars

====
